---- MODULE Spec2Model ----
(***************************************************************************)
(* Model of the NVIGI core plugin framework                                *)
(* (source/core/nvigi.framework/framework.cpp, NVIGI_WINDOWS build) and of *)
(* the plugin entry points the framework calls                             *)
(* (source/plugins/nvigi.hwi/cuda/cudaEntry.cpp,                           *)
(*  source/plugins/nvigi.hwi/common/commonEntry.cpp).                      *)
(*                                                                         *)
(* A public entry point is one action.  Everything the entry point does,   *)
(* nested calls made by a plugin's register/deregister included, is        *)
(* computed by operators that thread a "world" record                      *)
(*   w = [ctx, os, pl, gh, tr, disk]                                       *)
(* and return an outcome [w, r, x]: the world, the Result, whether an      *)
(* access violation unwound the call.  w.tr lists the events of the call.  *)
(***************************************************************************)
EXTENDS Integers, Sequences, FiniteSets, TLC

(***************************************************************************)
(* Bounds                                                                  *)
(***************************************************************************)
\* most references the host holds at one time, over all interfaces
MaxHostRefs == 2
\* most public calls of one run in which a module misbehaves or the host
\* releases a reference it does not hold
MaxAnomalies == 1
\* most public calls of one run in which a late discovery runs; the runs
\* followed have late discoveries or anomalous calls, not both, unless one
\* call is both
MaxLate == 1
\* highest reference count of one interface followed: the host's references
\* and the one a dependent plugin holds
MaxRefCount == MaxHostRefs + 1
\* most entries of the discovery report (it grows with every late discovery)
MaxSpecs == 4

(***************************************************************************)
(* Identities, interface types, modules on disk                            *)
(***************************************************************************)
\* nvigi::core::framework::kId, the reserved identity of the framework
kCoreId == 0
\* InterfaceFlagNone / InterfaceFlagNotRefCounted
InterfaceFlagNone == 0
InterfaceFlagNotRefCounted == 1

\* identities a caller may name: the core, five plugins the framework can
\* record, one identity (6) that only a module older than the framework
\* reports, so that the framework never records it
PluginIDs == 0..6

\* interface types: T1, T2 are registered by plugins, T3 by nobody
PluginTypes == {"T1", "T2", "T3"}
CoreTypes == {"ILog", "IMemory", "IException", "ISystem"}

Files == {"fA", "fB", "fC", "fD", "fX", "fY", "fO"}
Dirs == {"sdk", "hwi"}

\* directory listing, in directory_iterator order
DirListing == [d \in Dirs |-> IF d = "sdk" THEN <<"fC", "fD", "fX", "fY", "fO">>
                               ELSE <<"fA", "fB">>]

FileDir(f) == CHOOSE d \in Dirs : \E i \in 1..Len(DirListing[d]) : DirListing[d][i] = f

\* nvigi::Version is {major, minor, build}
Ver(a, b, c) == <<a, b, c>>

\* version of the PluginInfo structure the framework is built with
kStructVersion1 == 1

\* what each plugin module reports through getInfo and does in register:
\*   id       PluginInfo::id
\*   adds     the addInterface calls of register, in order
\*   deps     identities whose interface (type T1) register acquires and
\*            deregister releases (hwi.cuda -> hwi.common)
\*   version  version of the PluginInfo structure the module was built with
\* fA depends on a module with a higher identity, fC on one with a lower
\* identity; fC registers two counted interfaces; fD registers a counted and
\* a not-counted interface and then tries to add the first type again; fX is
\* a copy of fD under another file name; fY requires a driver newer than any
\* detected; fO was built with a PluginInfo older than the framework's.
PluginDef == [f \in Files |->
    CASE f = "fA" -> [id |-> 1, deps |-> <<2>>,
                      adds |-> << [type |-> "T1", flags |-> InterfaceFlagNone] >>,
                      minDriver |-> Ver(555, 85, 0), minOS |-> Ver(10, 0, 19041),
                      pluginAPI |-> Ver(0, 0, 1), requiredVendor |-> "NVDA", minGPUArch |-> 320,
                      version |-> kStructVersion1]
      [] f = "fB" -> [id |-> 2, deps |-> <<>>,
                      adds |-> << [type |-> "T1", flags |-> InterfaceFlagNone] >>,
                      minDriver |-> Ver(0, 0, 0), minOS |-> Ver(10, 0, 19041),
                      pluginAPI |-> Ver(0, 0, 1), requiredVendor |-> "None", minGPUArch |-> 0,
                      version |-> kStructVersion1]
      [] f = "fC" -> [id |-> 3, deps |-> <<2>>,
                      adds |-> << [type |-> "T1", flags |-> InterfaceFlagNone],
                                  [type |-> "T2", flags |-> InterfaceFlagNone] >>,
                      minDriver |-> Ver(0, 0, 0), minOS |-> Ver(10, 0, 19041),
                      pluginAPI |-> Ver(0, 0, 1), requiredVendor |-> "Any", minGPUArch |-> 0,
                      version |-> kStructVersion1]
      [] f \in {"fD", "fX"} ->
                     [id |-> 4, deps |-> <<>>,
                      adds |-> << [type |-> "T1", flags |-> InterfaceFlagNone],
                                  [type |-> "T2", flags |-> InterfaceFlagNotRefCounted],
                                  [type |-> "T1", flags |-> InterfaceFlagNotRefCounted] >>,
                      minDriver |-> Ver(0, 0, 0), minOS |-> Ver(10, 0, 19041),
                      pluginAPI |-> Ver(0, 0, 1), requiredVendor |-> "None", minGPUArch |-> 0,
                      version |-> kStructVersion1]
      [] f = "fY" -> [id |-> 5, deps |-> <<>>,
                      adds |-> << [type |-> "T1", flags |-> InterfaceFlagNone] >>,
                      minDriver |-> Ver(999, 0, 0), minOS |-> Ver(10, 0, 19041),
                      pluginAPI |-> Ver(0, 0, 1), requiredVendor |-> "None", minGPUArch |-> 0,
                      version |-> kStructVersion1]
      [] OTHER    -> [id |-> 6, deps |-> <<>>,
                      adds |-> << [type |-> "T1", flags |-> InterfaceFlagNone] >>,
                      minDriver |-> Ver(0, 0, 0), minOS |-> Ver(10, 0, 19041),
                      pluginAPI |-> Ver(0, 0, 1), requiredVendor |-> "None", minGPUArch |-> 0,
                      version |-> 0]]

DiskIds == {PluginDef[f].id : f \in Files}
\* the module file discovery records for identity p when the installation is
\* intact: of two copies the one listed first
FileOfId(p) == CHOOSE f \in Files \ {"fX"} : PluginDef[f].id = p

\* counted interfaces a plugin on disk registers: the keys of the host's
\* reference ledger
CountedKeys == {k \in DiskIds \X PluginTypes :
                  \E i \in 1..Len(PluginDef[FileOfId(k[1])].adds) :
                      /\ PluginDef[FileOfId(k[1])].adds[i].type = k[2]
                      /\ PluginDef[FileOfId(k[1])].adds[i].flags = InterfaceFlagNone
                      /\ \A j \in 1..(i - 1) : PluginDef[FileOfId(k[1])].adds[j].type # k[2]}

(***************************************************************************)
(* Result codes                                                            *)
(***************************************************************************)
kResultOk == "Ok"
kResultInvalidParameter == "InvalidParameter"
kResultInvalidState == "InvalidState"
kResultMissingInterface == "MissingInterface"
kResultMissingDynamicLibraryDependency == "MissingDynamicLibraryDependency"
kResultDriverOutOfDate == "DriverOutOfDate"
kResultOSOutOfDate == "OSOutOfDate"
kResultNoSupportedHardwareFound == "NoSupportedHardwareFound"
kResultDuplicatedPluginId == "DuplicatedPluginId"
kResultPluginOutOfDate == "PluginOutOfDate"
kResultNoPluginsFound == "NoPluginsFound"
kResultException == "Exception"
kResultNotReady == "NotReady"

(***************************************************************************)
(* Framework context                                                       *)
(***************************************************************************)
\* PluginInternals {hmod, pluginDeregister} with the module path; present is
\* membership of the identity in ctx->modules
NoModule == [present |-> FALSE, path |-> "", hmod |-> FALSE, pluginDeregister |-> FALSE]

\* system capabilities probed at init
NoCaps == [driverVersion |-> Ver(0, 0, 0), osVersion |-> Ver(0, 0, 0), adapters |-> <<>>]

\* ctx == nullptr is alive = FALSE.  ctx->interfaces is total: an identity
\* without a key and an identity with an empty list are the same to every
\* reader (operator[] creates the empty list on first use).
NullCtx == [alive |-> FALSE,
            modules |-> [p \in PluginIDs |-> NoModule],
            interfaces |-> [p \in PluginIDs |-> <<>>],
            pluginSpecs |-> <<>>,
            numDetectedPlugins |-> 0,
            caps |-> NoCaps,
            utf8PathToDependencies |-> ""]

\* state of one mapped plugin instance (its context lives from DLL attach to
\* DLL detach): hwiCommon is the dependency pointer register stored, holds
\* says whether that reference was acquired and not yet released
FreshPlugin == [hwiCommon |-> FALSE, holds |-> FALSE]

\* events of one public call
Ev(e, p, t) == [e |-> e, p |-> p, t |-> t]

Ret(w, r) == [w |-> w, r |-> r, x |-> FALSE]
Throw(w) == [w |-> w, r |-> kResultException, x |-> TRUE]
Log(w, e, p, t) == [w EXCEPT !.tr = Append(@, Ev(e, p, t))]

\* sequencing of calls: K continues with the outcome o
With(o, K(_)) == K(o)
\* K continues unless an exception unwinds the call
Bind(o, K(_)) == IF o.x THEN o ELSE K(o)
\* K continues only after kResultOk (NVIGI_CHECK and its hand-written forms)
Check(o, K(_)) == IF o.x \/ o.r # kResultOk THEN o ELSE K(o)

\* environment of one public call: at most one plugin module misbehaves
\* (pf = <<file, kind>>), the modules in uf fail to unload, and rd is what a
\* read through a dangling interface pointer yields
NoFault == <<"", "">>
\* the misbehaviour took effect
Fault(w, f, k) == Log(w, "fault", PluginDef[f].id, k)
FaultKinds == {"validate", "load", "getFunc", "entry", "getInfo", "setup", "register", "noAdd"}
RdKinds == {"stale", "garbage", "fault"}
Nominal == [pf |-> NoFault, uf |-> {}, rd |-> "stale"]
Faulty(env, f, k) == env.pf = <<f, k>>

(***************************************************************************)
(* Helpers                                                                 *)
(***************************************************************************)
\* an interface registration {refCount, interface pointer, flags}; type is
\* the type field of the structure the pointer refers to, valid says whether
\* the structure still exists (it lives in the plugin's context, destroyed
\* when the module is unmapped)
Entry(type, flags) == [refCount |-> 0, type |-> type, flags |-> flags, valid |-> TRUE]

Counted(e) == e.flags # InterfaceFlagNotRefCounted

\* i->type read through the stored pointer
ReadFaults(env, e) == ~e.valid /\ env.rd = "fault"
ReadType(env, e) == IF e.valid \/ env.rd = "stale" THEN e.type ELSE "?"

\* index of the first element of list that satisfies P, 0 if there is none
FirstIdx(list, P(_)) ==
    IF \E i \in 1..Len(list) : P(list[i])
    THEN CHOOSE i \in 1..Len(list) : P(list[i]) /\ \A j \in 1..(i - 1) : ~P(list[j])
    ELSE 0

\* lexicographic order of nvigi::Version
VersionGT(a, b) ==
    \/ a[1] > b[1]
    \/ a[1] = b[1] /\ a[2] > b[2]
    \/ a[1] = b[1] /\ a[2] = b[2] /\ a[3] > b[3]

\* FrameworkContext::apiVersion
apiVersion == Ver(0, 0, 1)

\* references on an interface of p that a live holder still has: the host's
\* ledger and the plugin instances that acquired p's interface in register
Outstanding(w, p) ==
    \/ \E k \in CountedKeys : k[1] = p /\ w.gh.hostRefs[k] > 0
    \/ \E f \in Files : w.pl[f].holds /\ \E i \in 1..Len(PluginDef[f].deps) : PluginDef[f].deps[i] = p

\* getPluginName: ctx->modules[id] creates the record of an identity the
\* table does not hold yet
getPluginName(ctx, id) ==
    IF id = kCoreId \/ ctx.modules[id].present THEN ctx
    ELSE [ctx EXCEPT !.modules[id].present = TRUE]

(***************************************************************************)
(* Interface registry: addInterface                                        *)
(***************************************************************************)
\* a registry that appends without looking for the type
addInterfaceUnchecked(w, env, feature, type, flags) ==
    Ret([w EXCEPT !.ctx = getPluginName(
              [@ EXCEPT !.interfaces[feature] = Append(@, Entry(type, flags))], feature)],
        TRUE)

addInterface(w, env, feature, type, flags) ==
    LET list == w.ctx.interfaces[feature]
        Hit(e) == ReadFaults(env, e) \/ ReadType(env, e) = type
        k == FirstIdx(list, Hit)
    IN  IF k # 0 /\ ReadFaults(env, list[k]) THEN Throw(w)
        ELSE IF k # 0 THEN Ret(w, FALSE)
        ELSE Ret([w EXCEPT !.ctx = getPluginName(
                      [@ EXCEPT !.interfaces[feature] = Append(@, Entry(type, flags))], feature)],
                 TRUE)

\* internalPluginSetup, the first statement of a plugin's getInfo and
\* register, fetches the four core interfaces through the function table of
\* the framework; nvigiInitImpl registers them and fills the table in the
\* same place, and in a context it left before that the table is null: the
\* call of the entry point is an access violation
internalPluginSetup(w) ==
    \A t \in CoreTypes :
        \E i \in 1..Len(w.ctx.interfaces[kCoreId]) : w.ctx.interfaces[kCoreId][i].type = t

\* getNumInterfaces
getNumInterfaces(w, feature) == Len(w.ctx.interfaces[feature])

(***************************************************************************)
(* Module loader                                                           *)
(***************************************************************************)
\* LoadLibraryExW of module file f: one more OS reference; the first one
\* maps the module and creates its context
LoadLibrary(w, f) ==
    Log([w EXCEPT !.os[f] = @ + 1,
                  !.pl[f] = IF w.os[f] = 0 THEN FreshPlugin ELSE @],
        "load", PluginDef[f].id, f)

\* unloadPlugin: FreeLibrary, then the check that the module is gone.
\* With no OS reference left the handle is stale and FreeLibrary fails.
\* When the last reference goes the module is unmapped: its context and the
\* interface structures in it are destroyed.
unloadPlugin(w, env, f) ==
    LET p == PluginDef[f].id IN
    IF w.os[f] = 0 THEN Ret(Log(w, "freeFailed", p, f), FALSE)
    ELSE IF f \in env.uf THEN Ret(Log(Fault(w, f, "unload"), "freeFailed", p, f), FALSE)
    ELSE IF w.os[f] > 1 THEN Ret(Log([w EXCEPT !.os[f] = @ - 1], "stillLoaded", p, f), FALSE)
    ELSE Ret(Log([w EXCEPT !.os[f] = 0,
                           !.pl[f] = FreshPlugin,
                           !.ctx.interfaces[p] = [i \in 1..Len(@) |-> [@[i] EXCEPT !.valid = FALSE]]],
                 "free", p, f), TRUE)

\* unloadPlugin on a failure path of registerPlugin, its result dropped
UnloadAnd(w, env, f, r) == Ret(unloadPlugin(w, env, f).w, r)

(***************************************************************************)
(* Minimum-spec check                                                      *)
(***************************************************************************)
\* a checker that compares the API version before the OS version
checkMinSpecApiFirst(windows, info, caps) ==
    IF VersionGT(info.minDriver, caps.driverVersion) THEN kResultDriverOutOfDate
    ELSE IF VersionGT(info.pluginAPI, apiVersion) THEN kResultInvalidState
    ELSE IF windows /\ VersionGT(info.minOS, caps.osVersion) THEN kResultOSOutOfDate
    ELSE IF \/ info.requiredVendor = "None"
            \/ \E i \in 1..Len(caps.adapters) :
                  \/ info.requiredVendor = "Any"
                  \/ /\ caps.adapters[i].vendor = info.requiredVendor
                     /\ info.minGPUArch <= caps.adapters[i].architecture
         THEN kResultOk
    ELSE kResultNoSupportedHardwareFound

\* a checker whose foundAdapter starts true for eAny as for eNone
checkMinSpecAnyAdapterless(windows, info, caps) ==
    IF VersionGT(info.minDriver, caps.driverVersion) THEN kResultDriverOutOfDate
    ELSE IF windows /\ VersionGT(info.minOS, caps.osVersion) THEN kResultOSOutOfDate
    ELSE IF VersionGT(info.pluginAPI, apiVersion) THEN kResultInvalidState
    ELSE IF \/ info.requiredVendor \in {"None", "Any"}
            \/ \E i \in 1..Len(caps.adapters) :
                  /\ caps.adapters[i].vendor = info.requiredVendor
                  /\ info.minGPUArch <= caps.adapters[i].architecture
         THEN kResultOk
    ELSE kResultNoSupportedHardwareFound

\* checkPluginMinSpec as built for Windows (the OS test is compiled under
\* NVIGI_WINDOWS) or for another platform; info is the plugin's descriptor,
\* caps is ctx->caps
checkMinSpec(windows, info, caps) ==
    IF VersionGT(info.minDriver, caps.driverVersion) THEN kResultDriverOutOfDate
    ELSE IF windows /\ VersionGT(info.minOS, caps.osVersion) THEN kResultOSOutOfDate
    ELSE IF VersionGT(info.pluginAPI, apiVersion) THEN kResultInvalidState
    ELSE IF \/ info.requiredVendor = "None"
            \/ \E i \in 1..Len(caps.adapters) :
                  \/ info.requiredVendor = "Any"
                  \/ /\ caps.adapters[i].vendor = info.requiredVendor
                     /\ info.minGPUArch <= caps.adapters[i].architecture
         THEN kResultOk
    ELSE kResultNoSupportedHardwareFound

\* the checker of the build the framework is followed in
checkPluginMinSpec(info, caps) == checkMinSpec(TRUE, info, caps)


(***************************************************************************)
(* Discovery: enumeratePlugins                                             *)
(***************************************************************************)
\* PluginSpec as allocated (new PluginSpec()) with the name set early
NewSpec(f) == [pluginName |-> f, id |-> -1, status |-> "default"]

SetLastStatus(w, st) == [w EXCEPT !.ctx.pluginSpecs[Len(w.ctx.pluginSpecs)].status = st]

\* isInterfaceSameOrNewerVersion of a PluginInfo
isInterfaceSameOrNewerVersion(info) == info.version >= kStructVersion1

\* a scan that records every candidate that answered getInfo, known or not
EnumAcceptOverwriting(w, env, f, requested) ==
    IF (requested # -1 /\ PluginDef[f].id # requested) \/ ~isInterfaceSameOrNewerVersion(PluginDef[f])
    THEN Ret(unloadPlugin(w, env, f).w, 0)
    ELSE Ret(unloadPlugin(
                [w EXCEPT
                    !.ctx.modules[PluginDef[f].id] =
                        [present |-> TRUE, path |-> f, hmod |-> FALSE, pluginDeregister |-> FALSE],
                    !.ctx.pluginSpecs[Len(w.ctx.pluginSpecs)] =
                        [pluginName |-> f, id |-> PluginDef[f].id,
                         status |-> checkPluginMinSpec(PluginDef[f], w.ctx.caps)]],
                env, f).w, 1)

\* the candidate answered getInfo: the requested-identity filter, the
\* version test, the duplicate test, the module record with the min-spec
\* status, then the unload of the transient handle.  The result r is 1 when
\* the candidate was recorded in the module table.
EnumAccept(w, env, f, requested) ==
    LET info == PluginDef[f]
        skip == requested # -1 /\ info.id # requested
        old == ~skip /\ ~isInterfaceSameOrNewerVersion(info)
        dup == ~skip /\ ~old /\ w.ctx.modules[info.id].present
    IN  Ret(unloadPlugin(
                IF skip THEN w
                ELSE IF old THEN SetLastStatus(w, kResultPluginOutOfDate)
                ELSE IF dup THEN SetLastStatus(w, kResultDuplicatedPluginId)
                ELSE [w EXCEPT
                        !.ctx.modules[info.id] =
                            [present |-> TRUE, path |-> f, hmod |-> FALSE, pluginDeregister |-> FALSE],
                        !.ctx.pluginSpecs[Len(w.ctx.pluginSpecs)] =
                            [pluginName |-> f, id |-> info.id,
                             status |-> checkPluginMinSpec(info, w.ctx.caps)]],
                env, f).w,
            IF ~skip /\ ~old /\ ~dup THEN 1 ELSE 0)

\* the candidate was loaded: the entry points, then getInfo
EnumLoaded(w, env, f, requested) ==
    IF Faulty(env, f, "getFunc")
    THEN Ret(SetLastStatus(Fault(w, f, "getFunc"), kResultInvalidState), 0)
    ELSE IF Faulty(env, f, "entry")
    THEN Throw(Fault(w, f, "entry"))
    ELSE IF Faulty(env, f, "getInfo")
    THEN Ret(SetLastStatus(Fault(Log(w, "getInfo", PluginDef[f].id, f), f, "getInfo"),
                           kResultInvalidState), 0)
    ELSE IF ~internalPluginSetup(w)
    THEN Throw(Log(w, "getInfo", PluginDef[f].id, f))
    ELSE EnumAccept(Log(w, "getInfo", PluginDef[f].id, f), env, f, requested)

\* one candidate of the directory, its PluginSpec pushed; requested is the
\* identity asked for, -1 when all plugins are enumerated
EnumListed(w, env, f, validateDLLs, requested) ==
    IF validateDLLs /\ Faulty(env, f, "validate")
    THEN Ret(SetLastStatus(Fault(w, f, "validate"), kResultMissingDynamicLibraryDependency), 0)
    ELSE IF Faulty(env, f, "load")
    THEN Ret(SetLastStatus(Fault(w, f, "load"), kResultMissingDynamicLibraryDependency), 0)
    ELSE EnumLoaded(LoadLibrary(w, f), env, f, requested)

EnumCandidate(w, env, f, validateDLLs, requested) ==
    EnumListed([w EXCEPT !.ctx.pluginSpecs = Append(@, NewSpec(f))], env, f,
               validateDLLs, requested)

RECURSIVE EnumLoop(_, _, _, _, _, _, _)
EnumLoop(w, env, files, i, validateDLLs, requested, n) ==
    IF i > Len(files) THEN Ret(w, n)
    ELSE Bind(EnumCandidate(w, env, files[i], validateDLLs, requested),
              LAMBDA o : EnumLoop(o.w, env, files, i + 1, validateDLLs, requested, n + o.r))

\* the candidates are the module files the directory holds
enumeratePlugins(w, env, dir, validateDLLs, requested) ==
    EnumLoop(w, env, SelectSeq(DirListing[dir], LAMBDA f : f \in w.disk), 1,
             validateDLLs, requested, 0)

(***************************************************************************)
(* Linking: nvigiLoadInterfaceImpl, registerPlugin, plugin register        *)
(***************************************************************************)
RECURSIVE LoadInterfaceImpl(_, _, _, _, _, _)

\* the addInterface calls of a register entry point; their results are not
\* looked at
RECURSIVE AddAll(_, _, _, _, _)
AddAll(w, env, p, adds, i) ==
    IF i > Len(adds) THEN Ret(w, TRUE)
    ELSE Bind(addInterface(w, env, p, adds[i].type, adds[i].flags),
              LAMBDA o : AddAll(o.w, env, p, adds, i + 1))

\* the directory a plugin names when it asks for its dependency
dependenciesPath(w, f) ==
    IF w.ctx.utf8PathToDependencies # "" THEN w.ctx.utf8PathToDependencies ELSE FileDir(f)

\* register of module f after its addInterface calls: the dependency is
\* acquired, then the module's own setup may still fail
RegisterDependency(w, env, f) ==
    IF PluginDef[f].deps = <<>> THEN Ret(w, kResultOk)
    ELSE Bind(LoadInterfaceImpl(w, env, f, PluginDef[f].deps[1], "T1", dependenciesPath(w, f)),
              LAMBDA g :
                IF g.r # kResultOk THEN Ret(g.w, kResultMissingDynamicLibraryDependency)
                ELSE IF Faulty(env, f, "register")
                THEN Ret([Fault(g.w, f, "register") EXCEPT !.pl[f].hwiCommon = TRUE],
                         kResultMissingDynamicLibraryDependency)
                ELSE Ret([g.w EXCEPT !.pl[f].hwiCommon = TRUE], kResultOk))

\* nvigiPluginRegister of module f
PluginRegister(w, env, f) ==
    IF Faulty(env, f, "setup")
    THEN Ret(Fault(Log(w, "register", PluginDef[f].id, f), f, "setup"), kResultInvalidState)
    ELSE IF Faulty(env, f, "noAdd")
    THEN Ret(Fault(Log(w, "register", PluginDef[f].id, f), f, "noAdd"), kResultOk)
    ELSE IF ~internalPluginSetup(w)
    THEN Throw(Log(w, "register", PluginDef[f].id, f))
    ELSE Bind(AddAll(Log(w, "register", PluginDef[f].id, f), env, PluginDef[f].id,
                     PluginDef[f].adds, 1),
              LAMBDA a : RegisterDependency(a.w, env, f))

\* a link that does not look at what register added
LinkUnchecked(w, env, feature, f, count) ==
    IF checkPluginMinSpec(PluginDef[f], w.ctx.caps) # kResultOk
    THEN UnloadAnd(w, env, f, checkPluginMinSpec(PluginDef[f], w.ctx.caps))
    ELSE Bind(PluginRegister(w, env, f), LAMBDA o :
            IF o.r # kResultOk THEN UnloadAnd(o.w, env, f, kResultInvalidState)
            ELSE Ret(Log([o.w EXCEPT !.ctx.modules[feature].hmod = TRUE,
                                     !.ctx.modules[feature].pluginDeregister = TRUE,
                                     !.gh.dereg[feature] = FALSE],
                         "link", feature, f), kResultOk))

\* a registerPlugin that returns the verdict of a failed min-spec check and
\* leaves the module loaded
LinkCheckedKeepsModule(w, env, feature, f, count) ==
    IF checkPluginMinSpec(PluginDef[f], w.ctx.caps) # kResultOk
    THEN Ret(w, checkPluginMinSpec(PluginDef[f], w.ctx.caps))
    ELSE Bind(PluginRegister(w, env, f), LAMBDA o :
            IF o.r # kResultOk THEN UnloadAnd(o.w, env, f, kResultInvalidState)
            ELSE IF count >= getNumInterfaces(o.w, feature)
            THEN UnloadAnd(o.w, env, f, kResultInvalidState)
            ELSE Ret(Log([o.w EXCEPT !.ctx.modules[feature].hmod = TRUE,
                                     !.ctx.modules[feature].pluginDeregister = TRUE,
                                     !.gh.dereg[feature] = FALSE],
                         "link", feature, f), kResultOk))

\* registerPlugin once getInfo has answered: the min-spec check, register,
\* the test that register added an interface; count is the number of
\* interfaces of the identity before register
LinkChecked(w, env, feature, f, count) ==
    IF checkPluginMinSpec(PluginDef[f], w.ctx.caps) # kResultOk
    THEN UnloadAnd(w, env, f, checkPluginMinSpec(PluginDef[f], w.ctx.caps))
    ELSE Bind(PluginRegister(w, env, f), LAMBDA o :
            IF o.r # kResultOk THEN UnloadAnd(o.w, env, f, kResultInvalidState)
            ELSE IF count >= getNumInterfaces(o.w, feature)
            THEN UnloadAnd(o.w, env, f, kResultInvalidState)
            ELSE Ret(Log([o.w EXCEPT !.ctx.modules[feature].hmod = TRUE,
                                     !.ctx.modules[feature].pluginDeregister = TRUE,
                                     !.gh.dereg[feature] = FALSE],
                         "link", feature, f), kResultOk))

\* registerPlugin once the module is loaded: the entry points, then getInfo
LinkLoaded(w, env, feature, f) ==
    IF Faulty(env, f, "getFunc") THEN UnloadAnd(Fault(w, f, "getFunc"), env, f, kResultInvalidState)
    ELSE IF Faulty(env, f, "entry")
    THEN UnloadAnd(Fault(w, f, "entry"), env, f, kResultInvalidState)
    ELSE IF Faulty(env, f, "getInfo")
    THEN Ret(Log(Fault(w, f, "getInfo"), "getInfo", feature, f), kResultInvalidState)
    ELSE IF ~internalPluginSetup(w)
    THEN Throw(Log(w, "getInfo", feature, f))
    ELSE LinkChecked(Log(Log(w, "getInfo", feature, f), "minspec", feature, f),
                     env, feature, f, getNumInterfaces(w, feature))

registerPlugin(w, env, feature) ==
    IF ~w.ctx.modules[feature].present THEN Ret(w, kResultMissingInterface)
    ELSE IF w.ctx.modules[feature].hmod THEN Ret(w, kResultOk)
    ELSE
      LET f == w.ctx.modules[feature].path
      IN  IF f = "" THEN Ret(w, kResultMissingDynamicLibraryDependency)
          ELSE IF Faulty(env, f, "validate")
          THEN Ret(Fault(w, f, "validate"), kResultMissingDynamicLibraryDependency)
          ELSE IF Faulty(env, f, "load")
          THEN Ret(Fault(w, f, "load"), kResultMissingDynamicLibraryDependency)
          ELSE LinkLoaded(LoadLibrary(w, f), env, feature, f)

\* late discovery: the identity has no interface and no module record, and
\* the caller gave a path
LateDiscovery(w, env, feature, path) ==
    IF w.ctx.interfaces[feature] # <<>> \/ w.ctx.modules[feature].present \/ path = ""
    THEN Ret(w, kResultOk)
    ELSE IF path \notin Dirs THEN Ret(w, kResultInvalidParameter)
    ELSE Bind(enumeratePlugins(w, env, path, TRUE, feature), LAMBDA e :
            Ret(IF e.r = 0 THEN Log(e.w, "late", feature, path)
                ELSE [Log(e.w, "late", feature, path)
                        EXCEPT !.ctx.numDetectedPlugins = Len(e.w.ctx.pluginSpecs)],
                kResultOk))

\* the loop over the identity's list: the first entry of the type is
\* returned, its count incremented when it is counted.  who is "host" or
\* the module file whose register makes the call.
Acquire(w, env, who, feature, type) ==
    LET list == w.ctx.interfaces[feature]
        Hit(en) == ReadFaults(env, en) \/ ReadType(env, en) = type
        k == FirstIdx(list, Hit)
    IN  IF k = 0 THEN Ret(w, kResultMissingInterface)
        ELSE IF ReadFaults(env, list[k]) THEN Throw(w)
        ELSE IF ~Counted(list[k]) THEN Ret(w, kResultOk)
        ELSE Ret([w EXCEPT
                    !.ctx = getPluginName(
                        [@ EXCEPT !.interfaces[feature][k].refCount = @ + 1], feature),
                    !.gh.hostRefs = IF who = "host" /\ <<feature, type>> \in CountedKeys
                                    THEN [@ EXCEPT ![<<feature, type>>] = @ + 1] ELSE @,
                    !.pl = IF who \in Files THEN [@ EXCEPT ![who].holds = TRUE] ELSE @],
                 kResultOk)

\* a framework that refuses a getInterface made while a register is running
LoadInterfaceNotReentrant(w, env, who, feature, type, path) ==
    IF who # "host" THEN Ret(w, kResultInvalidState)
    ELSE Check(LateDiscovery(w, env, feature, path), LAMBDA e :
           Check(IF e.w.ctx.interfaces[feature] = <<>> THEN registerPlugin(e.w, env, feature)
                 ELSE Ret(e.w, kResultOk),
                 LAMBDA g : Acquire(g.w, env, who, feature, type)))

\* a framework that loads and registers the recorded module on every request
LoadInterfaceReloading(w, env, who, feature, type, path) ==
    Check(LateDiscovery(w, env, feature, path), LAMBDA e :
      Check(IF e.w.ctx.modules[feature].present /\ e.w.ctx.modules[feature].path # ""
            THEN LinkLoaded(LoadLibrary(e.w, e.w.ctx.modules[feature].path), env, feature,
                            e.w.ctx.modules[feature].path)
            ELSE IF e.w.ctx.interfaces[feature] = <<>> THEN registerPlugin(e.w, env, feature)
            ELSE Ret(e.w, kResultOk),
            LAMBDA g : Acquire(g.w, env, who, feature, type)))

\* path is "" for a null utf8PathToPlugin
LoadInterfaceBody(w, env, who, feature, type, path) ==
    Check(LateDiscovery(w, env, feature, path), LAMBDA e :
      Check(IF e.w.ctx.interfaces[feature] = <<>> THEN registerPlugin(e.w, env, feature)
            ELSE Ret(e.w, kResultOk),
            LAMBDA g : Acquire(g.w, env, who, feature, type)))

LoadInterfaceImpl(w, env, who, feature, type, path) ==
    IF ~w.ctx.alive THEN Ret(w, kResultInvalidState)
    ELSE LoadInterfaceBody(w, env, who, feature, type, path)

(***************************************************************************)
(* Release: nvigiUnloadInterfaceImpl, plugin deregister                    *)
(***************************************************************************)
RECURSIVE UnloadInterfaceImpl(_, _, _, _, _)

\* nvigiPluginDeregister of module f: releases the dependency through the
\* pointer register stored (never cleared), result not looked at
PluginDeregister(w, env, f) ==
    IF PluginDef[f].deps = <<>> \/ ~w.pl[f].hwiCommon THEN Ret(w, kResultOk)
    ELSE Bind(UnloadInterfaceImpl(w, env, f, PluginDef[f].deps[1], "T1"),
              LAMBDA o : Ret(o.w, kResultOk))

\* internals.pluginDeregister() of the module at path f.  The pointer refers
\* into the module: with the module unmapped the call is an access
\* violation.
CallDeregister(w, env, feature, f) ==
    LET w0 == IF w.gh.dereg[feature] THEN Log(w, "again", feature, f) ELSE w
        w1 == [Log(w0, "deregister", feature, IF Outstanding(w, feature) THEN "ext" ELSE "")
                 EXCEPT !.gh.dereg[feature] = TRUE]
    IN  IF w.os[f] = 0 THEN Throw(Log(w1, "danglingCall", feature, f))
        ELSE PluginDeregister(w1, env, f)

\* the loop over the list: entry i is matched when its type reads as the
\* released type; a matched counted entry is decremented
RelMatch(env, e, type) == ReadType(env, e) = type
RelList(env, list, type, n) ==
    [i \in 1..Len(list) |->
        IF i <= n /\ RelMatch(env, list[i], type) /\ Counted(list[i])
        THEN [list[i] EXCEPT !.refCount = @ - 1] ELSE list[i]]

\* a scan that takes only counted entries for live
remainingCountedOnly(env, list, type) ==
    \E i \in 1..Len(list) :
        ~RelMatch(env, list[i], type) /\ Counted(list[i]) /\ list[i].refCount > 0

remainingInterfaces(env, list, type) ==
    \E i \in 1..Len(list) :
        /\ ~RelMatch(env, list[i], type)
        /\ (~Counted(list[i]) \/ list[i].refCount > 0)

\* a test of the count made before the decrement
deletedBeforeDecrement(env, list, type) ==
    \E i \in 1..Len(list) :
        RelMatch(env, list[i], type) /\ Counted(list[i]) /\ list[i].refCount <= 0

\* a test that takes a matched not-counted entry for a count at zero
deletedUncounted(env, list, type) ==
    \E i \in 1..Len(list) :
        /\ RelMatch(env, list[i], type)
        /\ (IF Counted(list[i]) THEN list[i].refCount - 1 ELSE list[i].refCount) <= 0

deletedInterface(env, list, type) ==
    \E i \in 1..Len(list) :
        RelMatch(env, list[i], type) /\ Counted(list[i]) /\ list[i].refCount - 1 <= 0

\* entries read before a read faults: all of them when none does
Scanned(env, list) ==
    LET kf == FirstIdx(list, LAMBDA e : ReadFaults(env, e))
    IN  IF kf = 0 THEN Len(list) ELSE kf - 1

\* the world after the loop: the counts, the ledgers of who released, the
\* release of a reference the host does not hold, the violated assert
Released(w, env, who, feature, type) ==
    LET list == w.ctx.interfaces[feature]
        n == Scanned(env, list)
        hitC == \E i \in 1..n : RelMatch(env, list[i], type) /\ Counted(list[i])
        under == \E i \in 1..n : /\ RelMatch(env, list[i], type) /\ Counted(list[i])
                                 /\ list[i].refCount - 1 < 0
        unmatched == /\ hitC /\ who = "host" /\ <<feature, type>> \in CountedKeys
                     /\ w.gh.hostRefs[<<feature, type>>] = 0
        wu == IF unmatched THEN Log(w, "unmatched", feature, type) ELSE w
        w0 == IF under THEN Log(wu, "assert", feature, type) ELSE wu
    IN  [w0 EXCEPT
           !.ctx = IF hitC
                   THEN getPluginName([@ EXCEPT !.interfaces[feature] =
                                           RelList(env, list, type, n)], feature)
                   ELSE @,
           !.gh.hostRefs = IF who = "host" /\ <<feature, type>> \in CountedKeys
                           THEN [@ EXCEPT ![<<feature, type>>] = IF @ > 0 THEN @ - 1 ELSE 0]
                           ELSE @,
           !.pl = IF who \in Files THEN [@ EXCEPT ![who].holds = FALSE] ELSE @]

\* the plugin has no live interface left: deregister, unload, clear the
\* module record, erase the list; w is the world after the loop
\* an unload that keeps the interface list of the plugin, its counts included
UnlinkKeepingList(w, env, feature, result) ==
    IF ~w.ctx.modules[feature].present THEN Ret(w, kResultMissingInterface)
    ELSE IF ~w.ctx.modules[feature].hmod THEN Ret(w, result)
    ELSE Bind(CallDeregister(w, env, feature, w.ctx.modules[feature].path), LAMBDA d :
           With(unloadPlugin(d.w, env, w.ctx.modules[feature].path), LAMBDA u :
             Ret(Log([u.w EXCEPT !.ctx.modules[feature].hmod = FALSE,
                                 !.ctx.modules[feature].pluginDeregister = FALSE,
                                 !.gh.dereg[feature] = FALSE],
                     "unlink", feature, w.ctx.modules[feature].path),
                 IF u.r THEN result ELSE kResultInvalidState)))

Unlink(w, env, feature, result) ==
    IF ~w.ctx.modules[feature].present THEN Ret(w, kResultMissingInterface)
    ELSE IF ~w.ctx.modules[feature].hmod
    THEN Ret([w EXCEPT !.ctx.interfaces[feature] = <<>>], result)
    ELSE Bind(CallDeregister(w, env, feature, w.ctx.modules[feature].path), LAMBDA d :
           With(unloadPlugin(d.w, env, w.ctx.modules[feature].path), LAMBDA u :
             Ret(Log([u.w EXCEPT !.ctx.modules[feature].hmod = FALSE,
                                 !.ctx.modules[feature].pluginDeregister = FALSE,
                                 !.ctx.interfaces[feature] = <<>>,
                                 !.gh.dereg[feature] = FALSE],
                     "unlink", feature, w.ctx.modules[feature].path),
                 IF u.r THEN result ELSE kResultInvalidState)))

UnloadInterfaceBody(w, env, who, feature, type) ==
    LET list == w.ctx.interfaces[feature]
        n == Scanned(env, list)
        found == \E i \in 1..n : RelMatch(env, list[i], type)
        result == IF found THEN kResultOk ELSE kResultInvalidParameter
    IN  IF n # Len(list) THEN Throw(Released(w, env, who, feature, type))
        ELSE IF deletedInterface(env, list, type) /\ ~remainingInterfaces(env, list, type)
        THEN Unlink(Released(w, env, who, feature, type), env, feature, result)
        ELSE IF result # kResultOk
        THEN Ret([Released(w, env, who, feature, type) EXCEPT !.ctx = getPluginName(@, feature)],
                 result)
        ELSE Ret(Released(w, env, who, feature, type), result)

UnloadInterfaceImpl(w, env, who, feature, type) ==
    IF ~w.ctx.alive THEN Ret(w, kResultInvalidState)
    ELSE UnloadInterfaceBody(w, env, who, feature, type)

(***************************************************************************)
(* Shutdown: nvigiShutdownImpl                                             *)
(***************************************************************************)
\* the leak check of one module's list
Leaks(list) == {i \in 1..Len(list) : Counted(list[i]) /\ list[i].refCount > 0}

RECURSIVE LogLeaks(_, _, _, _)
LogLeaks(w, p, list, i) ==
    IF i > Len(list) THEN w
    ELSE LogLeaks(IF i \in Leaks(list) THEN Log(w, "leak", p, list[i].type) ELSE w, p, list, i + 1)

\* the body of the loop over ctx->modules for identity p; result is the
\* Result accumulated so far
ShutdownModule(w, env, p, result) ==
    LET list == w.ctx.interfaces[p]
        r1 == IF Leaks(list) # {} THEN kResultInvalidState ELSE result
        f == w.ctx.modules[p].path
    IN  IF \E i \in Leaks(list) : ReadFaults(env, list[i]) THEN Throw(w)
        ELSE IF ~w.ctx.modules[p].hmod THEN Ret(LogLeaks(w, p, list, 1), r1)
        ELSE Bind(CallDeregister(LogLeaks(w, p, list, 1), env, p, f), LAMBDA d :
               With(unloadPlugin(d.w, env, f), LAMBDA u :
                 Ret(u.w, IF u.r THEN r1 ELSE kResultInvalidState)))

RECURSIVE ShutdownLoop(_, _, _, _)
ShutdownLoop(w, env, p, result) ==
    IF p \notin PluginIDs THEN Ret(w, result)
    ELSE IF ~w.ctx.modules[p].present THEN ShutdownLoop(w, env, p + 1, result)
    ELSE Bind(ShutdownModule(w, env, p, result),
              LAMBDA o : ShutdownLoop(o.w, env, p + 1, o.r))

\* delete ctx; ctx = nullptr: every link and every reference ends
DeleteCtx(w) ==
    Log([w EXCEPT !.ctx = NullCtx,
                  !.gh.hostRefs = [k \in CountedKeys |-> 0],
                  !.gh.dereg = [p \in PluginIDs |-> FALSE]],
        "deleteCtx", kCoreId, "")

\* a shutdown that keeps the context when a leak or a failed unload was found
ShutdownKeepsContextOnError(w, env) ==
    Check(ShutdownLoop(w, env, 0, kResultOk), LAMBDA o : Ret(DeleteCtx(o.w), o.r))

\* the loop over the modules, then the teardown of the context
ShutdownBody(w, env) ==
    Bind(ShutdownLoop(w, env, 0, kResultOk), LAMBDA o : Ret(DeleteCtx(o.w), o.r))

\* a shutdown without the test of ctx
ShutdownUnguarded(w, env) == ShutdownBody(w, env)

ShutdownImpl(w, env) ==
    IF ~w.ctx.alive THEN Ret(w, kResultInvalidState)
    ELSE ShutdownBody(w, env)

(***************************************************************************)
(* Initialization: nvigiInitImpl                                           *)
(***************************************************************************)
\* capabilities getSystemCaps may detect
CapsChoices ==
    { [driverVersion |-> Ver(560, 0, 0), osVersion |-> Ver(10, 0, 22000),
       adapters |-> << [vendor |-> "NVDA", architecture |-> 400] >>] }

\* Preferences: utf8PathsToPlugins ("null" is a null entry, "invalid" a path
\* that is no directory), utf8PathToDependencies ("" when not given), whether
\* the version token carries kSDKVersionMagic; dupLibs says whether two of
\* the visited directories hold a shared library of the same name
PathChoices == { <<"sdk", "hwi">>, <<>> }
DepsChoices == {""}
\* "registerPlugins" of the development override file
RegisterChoices == { <<>>, <<"fA">>, <<"fY">> }

\* the internal interfaces shared under the core identity
CoreInterfaces == <<"ILog", "IMemory", "IException", "ISystem">>

RECURSIVE AddCore(_, _, _)
AddCore(w, env, i) ==
    IF i > Len(CoreInterfaces) THEN w
    ELSE AddCore(addInterface(w, env, kCoreId, CoreInterfaces[i], InterfaceFlagNotRefCounted).w,
                 env, i + 1)

\* a loop over pref.utf8PathsToPlugins that enumerates every entry
RECURSIVE InitPathsRescanning(_, _, _, _, _)
InitPathsRescanning(w, env, paths, i, visited) ==
    IF i > Len(paths) THEN Ret(w, kResultOk)
    ELSE IF paths[i] \notin Dirs THEN Ret(w, kResultInvalidParameter)
    ELSE Bind(enumeratePlugins(w, env, paths[i], TRUE, -1),
              LAMBDA o : InitPathsRescanning(o.w, env, paths, i + 1, visited))

\* the loop over pref.utf8PathsToPlugins with the visited directories
RECURSIVE InitPaths(_, _, _, _, _)
InitPaths(w, env, paths, i, visited) ==
    IF i > Len(paths) THEN Ret(w, kResultOk)
    ELSE IF paths[i] \notin Dirs THEN Ret(w, kResultInvalidParameter)
    ELSE IF paths[i] \in visited THEN InitPaths(w, env, paths, i + 1, visited)
    ELSE Bind(enumeratePlugins(w, env, paths[i], TRUE, -1),
              LAMBDA o : InitPaths(o.w, env, paths, i + 1, visited \cup {paths[i]}))

\* ctx->nameToId holds the names of the modules discovery recorded
Enumerated(w, f) == w.ctx.modules[PluginDef[f].id].present /\ w.ctx.modules[PluginDef[f].id].path = f

\* an initialize that links a plugin it discovered, listed or not
RegisterDiscoveredPlugin(w, env, names, i) ==
    IF \E p \in DiskIds : w.ctx.modules[p].present
    THEN registerPlugin(w, env, CHOOSE p \in DiskIds : w.ctx.modules[p].present)
    ELSE Ret(w, kResultOk)

\* the plugins the development override file lists are linked at once
RECURSIVE InitRegisterPlugins(_, _, _, _)
InitRegisterPlugins(w, env, names, i) ==
    IF i > Len(names) THEN Ret(w, kResultOk)
    ELSE IF ~Enumerated(w, names[i]) THEN InitRegisterPlugins(w, env, names, i + 1)
    ELSE Check(registerPlugin(w, env, PluginDef[names[i]].id),
               LAMBDA o : InitRegisterPlugins(o.w, env, names, i + 1))

\* an initialize that fails when the report holds a rejected candidate
InitDiscoveredStrict(o, env, pref) ==
    IF o.r # kResultOk THEN o
    ELSE IF \E i \in 1..Len(o.w.ctx.pluginSpecs) : o.w.ctx.pluginSpecs[i].status # kResultOk
    THEN Ret(o.w, kResultInvalidState)
    ELSE InitRegisterPlugins(
             [o.w EXCEPT !.ctx.numDetectedPlugins = Len(o.w.ctx.pluginSpecs)],
             env, pref.registerPlugins, 1)

\* after the directories were enumerated: the shared-library validation,
\* the test that a plugin was found, the report, the eager links
InitDiscovered(o, env, pref) ==
    IF o.r # kResultOk THEN o
    ELSE IF pref.dupLibs THEN Ret(o.w, kResultInvalidState)
    ELSE IF \A p \in PluginIDs : ~o.w.ctx.modules[p].present
    THEN Ret(o.w, kResultNoPluginsFound)
    ELSE InitRegisterPlugins(
             [o.w EXCEPT !.ctx.numDetectedPlugins = Len(o.w.ctx.pluginSpecs)],
             env, pref.registerPlugins, 1)

\* an initialize that shares the core interfaces once the directories were
\* enumerated
InitContextCoreLast(w, env, pref, caps) ==
    IF ~pref.magic \/ pref.deps = "invalid" THEN Ret(w, kResultInvalidParameter)
    ELSE Bind(InitPaths([w EXCEPT !.ctx.utf8PathToDependencies = pref.deps, !.ctx.caps = caps],
                        env, pref.paths, 1, {}),
              LAMBDA o : InitDiscovered([o EXCEPT !.w = AddCore(o.w, env, 1)], env, pref))

\* the context created, the Preferences validated, the core interfaces
\* registered and the capabilities probed
InitContext(w, env, pref, caps) ==
    IF ~pref.magic \/ pref.deps = "invalid" THEN Ret(w, kResultInvalidParameter)
    ELSE Bind(InitPaths([AddCore([w EXCEPT !.ctx.utf8PathToDependencies = pref.deps], env, 1)
                           EXCEPT !.ctx.caps = caps],
                        env, pref.paths, 1, {}),
              LAMBDA o : InitDiscovered(o, env, pref))

\* ctx = new FrameworkContext and everything after it
InitBody(w, env, pref, caps) ==
    InitContext(Log([w EXCEPT !.ctx = [NullCtx EXCEPT !.alive = TRUE]], "newCtx", kCoreId, ""),
                env, pref, caps)

\* an initialize without the test of ctx
InitUnguarded(w, env, pref, caps) == InitBody(w, env, pref, caps)

InitImpl(w, env, pref, caps) ==
    IF w.ctx.alive THEN Ret(w, kResultInvalidState)
    ELSE InitBody(w, env, pref, caps)

(***************************************************************************)
(* State                                                                   *)
(***************************************************************************)
VARIABLES
    disk,     \* the plugin module files installed on this machine
    ctx,      \* the FrameworkContext, NullCtx when the pointer is null
    os,       \* OS load references per module file
    pl,       \* state of each plugin module instance
    gh,       \* ledgers: references the host holds, whether the current link
              \* of a plugin was deregistered, the calls so far in which a
              \* module misbehaved (faults) and in which the host released a
              \* reference it did not hold (unmatched) or a late discovery
              \* ran (late)
    process,  \* "up"; "aborted" once a failed assert terminated the process;
              \* "crashed" once an access violation was intercepted (the call
              \* returned kResultException): the run is not followed further
    ms,       \* a minimum-spec check on its own: the build, the descriptor
              \* and the capabilities it is given and its verdict; NoMinSpec
              \* while the checker runs as part of the framework
    dumps,    \* the crash snapshots of the executable: the snapshot
              \* directories under its root, each with its last write time,
              \* the clock, and what the last write pruned
    priv,     \* the privileges of the process: those enabled in its token,
              \* s_privileges, and how deep the calls into the framework
              \* are nested
    poll,     \* a PollContext and the threads that use it
    cuda,     \* the shared CUDA contexts of the hwi.cuda plugin
    th        \* the host threads that are inside getInterface or
              \* releaseInterface at the same time: where each one is, the
              \* count it read, the references it holds; all idle as long
              \* as the host makes one call after the other

vars == <<disk, ctx, os, pl, gh, process, th, ms, dumps, priv, poll, cuda>>

\* constexpr size_t kMaxAllowedDumps
kMaxAllowedDumps == 5

\* the snapshot directories a run starts with were written at times up to
\* InitialClock; a run writes snapshots up to time MaxClock
InitialClock == 5
MaxClock == 12

\* no snapshot was written and the root of the executable is empty
NoDumps == [dirs |-> {}, clock |-> InitialClock, pruned |-> {}, failed |-> FALSE,
            overridden |-> FALSE]

\* the process before any call into the framework: s_privileges as
\* constructed, nothing enabled
NoPriv ==
    [enabled |-> {}, admin |-> FALSE, depth |-> 0, entry |-> {}, failed |-> FALSE,
     s |-> [hToken |-> FALSE, flags |-> FALSE, prevPrivileges |-> {},
            runningAsAdmin |-> FALSE, ranOnce |-> FALSE]]

\* no PollContext in use
NoPoll == [active |-> FALSE]

\* no shared CUDA context
NoCuda == [active |-> FALSE]

\* no minimum-spec check on its own
NoMinSpec == [windows |-> TRUE, info |-> <<>>, caps |-> <<>>, verdict |-> "none"]

\* the most threads that call at the same time, and the calls each makes
MaxThreads == 2
MaxCalls == 2
Threads == 1..MaxThreads

\* no thread is inside a call
IdleThreads ==
    [pc |-> [t \in Threads |-> "idle"],
     reg |-> [t \in Threads |-> 0],
     gen |-> [t \in Threads |-> 0],
     held |-> [t \in Threads |-> 0],
     calls |-> [t \in Threads |-> 0],
     last |-> [t \in Threads |-> ""],
     live |-> [t \in Threads |-> TRUE],
     initial |-> 0,
     acquired |-> 0,
     released |-> 0,
     unlinks |-> 0]

\* the world a public call starts from
World == [ctx |-> ctx, os |-> os, pl |-> pl, gh |-> gh, tr |-> <<>>, disk |-> disk]

\* the installations considered: a plugin with its dependency under a
\* higher identity, a plugin with its dependency under a lower identity, a
\* plugin with a second copy of its module and one the machine cannot run,
\* an installation none of whose plugins the machine can use, and a plugin
\* and its dependency in one directory with a plugin in the other
Installs == { {"fA", "fB"}, {"fB", "fC"}, {"fD", "fX", "fY"}, {"fY", "fO"}, {"fA", "fB", "fD"} }

Init ==
    /\ disk \in Installs
    /\ ctx = NullCtx
    /\ os = [f \in Files |-> 0]
    /\ pl = [f \in Files |-> FreshPlugin]
    /\ gh = [hostRefs |-> [k \in CountedKeys |-> 0],
             dereg |-> [p \in PluginIDs |-> FALSE],
             faults |-> 0,
             unmatched |-> 0,
             late |-> 0]
    /\ process = "up"
    /\ th = IdleThreads
    /\ ms = NoMinSpec
    /\ dumps = NoDumps
    /\ priv = NoPriv
    /\ poll = NoPoll
    /\ cuda = NoCuda

\* the bounds of the model
SumRefs(h) ==
    LET RECURSIVE Sum(_)
        Sum(S) == IF S = {} THEN 0 ELSE LET k == CHOOSE k \in S : TRUE IN h[k] + Sum(S \ {k})
    IN  Sum(DOMAIN h)

Bounded(w) ==
    /\ SumRefs(w.gh.hostRefs) <= MaxHostRefs
    /\ Len(w.ctx.pluginSpecs) <= MaxSpecs
    /\ \A p \in PluginIDs : \A i \in 1..Len(w.ctx.interfaces[p]) :
          /\ w.ctx.interfaces[p][i].refCount <= MaxRefCount
          /\ w.ctx.interfaces[p][i].refCount >= -(MaxHostRefs + MaxAnomalies)

\* the Result a public call returns: an access violation is caught at the
\* public boundary (NVIGI_CATCH_EXCEPTION) and returned as kResultException,
\* with the state as the fault left it
Result(o) == IF o.x THEN kResultException ELSE o.r

\* the outcome of a public call becomes the next state
Happened(tr, e) == \E i \in 1..Len(tr) : tr[i].e = e

\* a module misbehaved, or the host released a reference it did not hold
Anomalous(tr) == Happened(tr, "fault") \/ Happened(tr, "unmatched")

\* the anomalies of the run so far
Anomalies(g) == g.faults + g.unmatched

Commit(o, env) ==
    /\ (env.pf # NoFault \/ env.uf # {}) => Happened(o.w.tr, "fault")
    /\ Anomalous(o.w.tr) => Anomalies(gh) < MaxAnomalies /\ gh.late = 0
    /\ Happened(o.w.tr, "late") => gh.late < MaxLate /\ Anomalies(gh) = 0
    /\ Bounded(o.w)
    /\ ctx' = o.w.ctx
    /\ os' = o.w.os
    /\ pl' = o.w.pl
    /\ gh' = [o.w.gh EXCEPT
                !.faults = IF Happened(o.w.tr, "fault") THEN @ + 1 ELSE @,
                !.unmatched = IF Happened(o.w.tr, "unmatched") THEN @ + 1 ELSE @,
                !.late = IF Happened(o.w.tr, "late") THEN @ + 1 ELSE @]
    /\ process' = IF o.x THEN "crashed" ELSE process
    /\ UNCHANGED <<disk, th, ms, dumps, priv, poll, cuda>>

\* does some registration point into an unmapped module
Dangling(c) == \E p \in PluginIDs : \E i \in 1..Len(c.interfaces[p]) : ~c.interfaces[p][i].valid

\* module files a call naming identity p can load or unload
Rel(p) == {f \in Files :
             \/ PluginDef[f].id = p
             \/ /\ p \in DiskIds
                /\ \E i \in 1..Len(PluginDef[FileOfId(p)].deps) :
                      PluginDef[f].id = PluginDef[FileOfId(p)].deps[i]}

\* identities a caller names: those of the installed plugins, the core, and
\* one the framework never records
Named == {kCoreId, PluginDef["fO"].id} \cup {PluginDef[f].id : f \in disk}

\* environments of one call: no misbehaviour, one of files misbehaving in
\* one of kinds, or one of unl failing to unload; each with every outcome in
\* rds of a read through a dangling pointer
EnvSet(files, kinds, unl, rds) ==
    {[pf |-> NoFault, uf |-> uf, rd |-> rd] : uf \in {{}} \cup {{f} : f \in unl}, rd \in rds}
    \cup {[pf |-> <<f, k>>, uf |-> {}, rd |-> rd] : f \in files, k \in kinds, rd \in rds}

\* the modules that may still misbehave in this run
MayFail(files) == IF Anomalies(gh) < MaxAnomalies /\ gh.late = 0 THEN files ELSE {}

\* the module files a call can load: those whose identity is not linked
Loadable(files) == {f \in files : ~ctx.modules[PluginDef[f].id].hmod}

\* the module files a call can unload: those mapped now
Mapped(files) == {f \in files : os[f] > 0}

\* a call that unmaps no module before its last read of the registry reads
\* through a dangling pointer only when one is registered already
Reads(c) == IF Dangling(c) THEN RdKinds ELSE {"stale"}

\* a shutdown unmaps modules while it runs: it reads through a dangling
\* pointer when one is registered already, or when the deregister of a plugin
\* releases the interface of a dependency that may be unmapped by then
ShutdownReads(c, p) ==
    IF Dangling(c) \/ \E f \in Files : p[f].hwiCommon THEN RdKinds ELSE {"stale"}

(***************************************************************************)
(* Public entry points                                                     *)
(***************************************************************************)
\* the Preferences a host passes
Prefs == [paths : PathChoices, deps : DepsChoices, magic : BOOLEAN, dupLibs : {FALSE},
          registerPlugins : RegisterChoices]

\* the ways a candidate module can misbehave during discovery
DiscoveryFaults == {"validate", "load", "getFunc", "entry", "getInfo"}

nvigiInit ==
    /\ process = "up"
    /\ \E pref \in Prefs, caps \in CapsChoices :
        \E env \in EnvSet(MayFail(disk), DiscoveryFaults, MayFail(disk), {"stale"}) :
            Commit(InitImpl(World, env, pref, caps), env)

nvigiShutdown ==
    /\ process = "up"
    /\ \E env \in EnvSet({}, {}, MayFail(Mapped(disk)), ShutdownReads(ctx, pl)) :
        Commit(ShutdownImpl(World, env), env)

\* the utf8PathToPlugin values that matter: the argument is read only when
\* the identity has neither an interface nor a module record
LatePaths(p) ==
    IF ctx.alive /\ ctx.interfaces[p] = <<>> /\ ~ctx.modules[p].present
       /\ Len(ctx.pluginSpecs) < MaxSpecs /\ gh.late < MaxLate /\ Anomalies(gh) = 0
    THEN {"", "sdk", "hwi", "invalid"} ELSE {""}

\* nvigiLoadInterface with the _interface out-pointer null or not
LoadInterface(w, env, p, t, path, outNull) ==
    IF outNull THEN Ret(w, kResultInvalidParameter)
    ELSE LoadInterfaceImpl(w, env, "host", p, t, path)

nvigiLoadInterface ==
    /\ process = "up"
    /\ \/ \E p \in Named, t \in PluginTypes \cup {"ISystem"} : \E path \in LatePaths(p) :
          \E env \in EnvSet(MayFail(Loadable(Rel(p))), FaultKinds, {}, Reads(ctx)) :
            Commit(LoadInterface(World, env, p, t, path, FALSE), env)
       \/ Commit(LoadInterface(World, Nominal, kCoreId, "ISystem", "", TRUE), Nominal)

\* nvigiUnloadInterface with the _interface pointer null, or pointing at a
\* structure of type t
UnloadInterface(w, env, p, t, ifNull) ==
    IF ifNull THEN Ret(w, kResultMissingInterface)
    ELSE UnloadInterfaceImpl(w, env, "host", p, t)

nvigiUnloadInterface ==
    /\ process = "up"
    /\ \/ \E p \in Named, t \in PluginTypes \cup {"ISystem"} :
          \E env \in EnvSet({}, {}, MayFail(Mapped(Rel(p))), Reads(ctx)) :
            Commit(UnloadInterface(World, env, p, t, FALSE), env)
       \/ Commit(UnloadInterface(World, Nominal, kCoreId, "ISystem", TRUE), Nominal)

\* a build with asserts enabled: assert(refCount >= 0) in
\* nvigiUnloadInterfaceImpl terminates the process
AssertFailed ==
    /\ process = "up"
    /\ \/ \E p \in Named, t \in PluginTypes : \E rd \in Reads(ctx) :
            Happened(UnloadInterfaceImpl(World, [Nominal EXCEPT !.rd = rd], "host", p, t).w.tr,
                     "assert")
       \/ \E rd \in RdKinds :
            Happened(ShutdownImpl(World, [Nominal EXCEPT !.rd = rd]).w.tr, "assert")
    /\ process' = "aborted"
    /\ UNCHANGED <<disk, ctx, os, pl, gh, th, ms, dumps, priv, poll, cuda>>

Next ==
    \/ nvigiInit
    \/ nvigiShutdown
    \/ nvigiLoadInterface
    \/ nvigiUnloadInterface
    \/ AssertFailed

Spec == Init /\ [][Next]_vars

(***************************************************************************)
(* Concurrent callers.  getInterface and releaseInterface take no lock and *)
(* the count is a plain int32_t: threads that are inside                   *)
(* nvigiLoadInterfaceImpl and nvigiUnloadInterfaceImpl at the same time    *)
(* interleave at their reads and writes of the registry.                   *)
(***************************************************************************)
\* the interface the threads acquire and release
kHwiCommon == PluginDef["fB"].id
SharedType == "T1"

\* the state the threads start from: the framework initialized, and the
\* interface acquired by thread 1, n times, which linked the plugin
RECURSIVE AcquiredTimes(_, _)
AcquiredTimes(w, n) ==
    IF n = 0 THEN w
    ELSE AcquiredTimes(LoadInterface(w, Nominal, kHwiCommon, SharedType, "", FALSE).w, n - 1)

Launched(n) ==
    [AcquiredTimes(
        InitImpl([ctx |-> NullCtx, os |-> [f \in Files |-> 0],
                  pl |-> [f \in Files |-> FreshPlugin],
                  gh |-> [hostRefs |-> [k \in CountedKeys |-> 0],
                          dereg |-> [p \in PluginIDs |-> FALSE],
                          faults |-> 0, unmatched |-> 0, late |-> 0],
                  tr |-> <<>>, disk |-> {"fA", "fB"}],
                 Nominal,
                 [paths |-> <<"sdk", "hwi">>, deps |-> "", magic |-> TRUE, dupLibs |-> FALSE,
                  registerPlugins |-> <<>>],
                 CHOOSE c \in CapsChoices : TRUE).w,
        n) EXCEPT !.tr = <<>>]

InitialRefs == {1, 2}

InitMT ==
    \E n \in InitialRefs :
        /\ disk = Launched(n).disk
        /\ ctx = Launched(n).ctx
        /\ os = Launched(n).os
        /\ pl = Launched(n).pl
        /\ gh = Launched(n).gh
        /\ process = "up"
        /\ th = [IdleThreads EXCEPT !.held[1] = n, !.initial = n]
        /\ ms = NoMinSpec
        /\ dumps = NoDumps
        /\ priv = NoPriv
        /\ poll = NoPoll
        /\ cuda = NoCuda

\* the entry of the shared interface in the list a thread iterates
Slot(c) == FirstIdx(c.interfaces[kHwiCommon], LAMBDA e : e.type = SharedType)

\* the list the thread got its reference to (auto& list) is still the list
\* of the registry: no erase since
SameList(t) == th.gen[t] = th.unlinks /\ Slot(ctx) # 0

\* what a read through the interface pointer of the entry yields
ThreadReads == IF Slot(ctx) # 0 /\ ~ctx.interfaces[kHwiCommon][Slot(ctx)].valid THEN RdKinds ELSE {"stale"}

\* where a write through a reference into the list lands: in the entry, or,
\* the list erased since, in freed memory (without effect, or an access
\* violation) or in the entry of the list created since at that place
ThreadWrites(t) ==
    IF SameList(t) THEN {"entry"}
    ELSE IF Slot(ctx) = 0 THEN {"freed", "fault"}
    ELSE {"freed", "fault", "entry"}

\* the world of the threads' steps
Shared(w) ==
    /\ ctx' = w.ctx
    /\ os' = w.os
    /\ pl' = w.pl
    /\ gh' = w.gh
    /\ UNCHANGED <<disk, ms, dumps, priv, poll, cuda>>

\* thread t returns from its call with result r
Returned(t, r) == [th EXCEPT !.pc[t] = "idle", !.last[t] = r]

\* nvigiLoadInterfaceImpl up to the read of refCount in refCount++: the test
\* of the list (an empty list links the plugin first), the loop, the match
\* of i->type
LoadRead(t) ==
    /\ process = "up" /\ ctx.alive
    /\ th.pc[t] = "idle" /\ th.calls[t] < MaxCalls
    /\ \E o \in {IF ctx.interfaces[kHwiCommon] = <<>>
                  THEN registerPlugin(World, Nominal, kHwiCommon)
                  ELSE Ret(World, kResultOk)} :
         /\ Shared(o.w)
         /\ \E rd \in (IF o.r = kResultOk THEN ThreadReads ELSE {"stale"}) :
              /\ process' = IF rd = "fault" THEN "crashed" ELSE process
              /\ th' = IF o.r # kResultOk
                          THEN [Returned(t, o.r) EXCEPT !.calls[t] = @ + 1]
                       ELSE IF rd = "fault"
                          THEN [Returned(t, kResultException) EXCEPT !.calls[t] = @ + 1]
                       ELSE IF rd = "garbage" \/ Slot(o.w.ctx) = 0
                          THEN [Returned(t, kResultMissingInterface) EXCEPT !.calls[t] = @ + 1]
                       ELSE [th EXCEPT !.pc[t] = "loadWrite",
                                       !.calls[t] = @ + 1,
                                       !.gen[t] = th.unlinks,
                                       !.reg[t] = o.w.ctx.interfaces[kHwiCommon][Slot(o.w.ctx)].refCount]

\* the write of refCount++, *_interface = i, return kResultOk
LoadWrite(t) ==
    /\ process = "up"
    /\ th.pc[t] = "loadWrite"
    /\ \E wr \in ThreadWrites(t) :
         /\ ctx' = IF wr = "entry"
                    THEN [ctx EXCEPT !.interfaces[kHwiCommon][Slot(ctx)].refCount = th.reg[t] + 1]
                    ELSE ctx
         /\ process' = IF wr = "fault" THEN "crashed" ELSE process
         /\ th' = IF wr = "fault" THEN Returned(t, kResultException)
                  ELSE [Returned(t, kResultOk) EXCEPT
                          !.held[t] = @ + 1,
                          !.acquired = @ + 1,
                          !.live[t] = /\ ctx.modules[kHwiCommon].hmod
                                      /\ os[ctx.modules[kHwiCommon].path] > 0
                                      /\ Slot(ctx) # 0]
    /\ UNCHANGED <<disk, os, pl, gh, ms, dumps, priv, poll, cuda>>

\* nvigiUnloadInterfaceImpl up to the read of refCount in refCount--; a
\* thread releases a reference it holds
UnloadRead(t) ==
    /\ process = "up" /\ ctx.alive
    /\ th.pc[t] = "idle" /\ th.calls[t] < MaxCalls /\ th.held[t] > 0
    /\ \E rd \in ThreadReads :
         /\ process' = IF rd = "fault" THEN "crashed" ELSE process
         /\ th' = IF rd = "fault"
                     THEN [Returned(t, kResultException) EXCEPT !.calls[t] = @ + 1]
                  ELSE IF rd = "garbage" \/ Slot(ctx) = 0
                     THEN [Returned(t, kResultInvalidParameter) EXCEPT
                             !.calls[t] = @ + 1, !.held[t] = @ - 1]
                  ELSE [th EXCEPT !.pc[t] = "unloadWrite",
                                  !.calls[t] = @ + 1,
                                  !.gen[t] = th.unlinks,
                                  !.reg[t] = ctx.interfaces[kHwiCommon][Slot(ctx)].refCount]
    /\ UNCHANGED <<disk, ctx, os, pl, gh, ms, dumps, priv, poll, cuda>>

\* the write of refCount--
UnloadWrite(t) ==
    /\ process = "up"
    /\ th.pc[t] = "unloadWrite"
    /\ \E wr \in ThreadWrites(t) :
         /\ ctx' = IF wr = "entry"
                    THEN [ctx EXCEPT !.interfaces[kHwiCommon][Slot(ctx)].refCount = th.reg[t] - 1]
                    ELSE ctx
         /\ process' = IF wr = "fault" THEN "crashed" ELSE process
         /\ th' = IF wr = "fault" THEN Returned(t, kResultException)
                  ELSE [th EXCEPT !.pc[t] = "unloadTest"]
    /\ UNCHANGED <<disk, os, pl, gh, ms, dumps, priv, poll, cuda>>

\* if (refCount <= 0) deletedInterface = true, and the rest of the loop: the
\* count tested is the value the thread wrote, or, read again from the
\* entry, what the entry holds by now
UnloadTest(t) ==
    /\ process = "up"
    /\ th.pc[t] = "unloadTest"
    /\ \E v \in {th.reg[t] - 1} \cup
                 (IF SameList(t) THEN {ctx.interfaces[kHwiCommon][Slot(ctx)].refCount} ELSE {}) :
         th' = IF v <= 0 /\ ~remainingInterfaces(Nominal, ctx.interfaces[kHwiCommon], SharedType)
                  THEN [th EXCEPT !.pc[t] = "unloadDeregister"]
               ELSE [Returned(t, kResultOk) EXCEPT !.held[t] = @ - 1, !.released = @ + 1]
    /\ UNCHANGED <<disk, ctx, os, pl, gh, process, ms, dumps, priv, poll, cuda>>

\* if (internals.hmod): pluginDeregister(), unloadPlugin
UnloadDeregister(t) ==
    /\ process = "up"
    /\ th.pc[t] = "unloadDeregister"
    /\ \E d \in {IF ctx.modules[kHwiCommon].hmod
                  THEN CallDeregister(World, Nominal, kHwiCommon, ctx.modules[kHwiCommon].path)
                  ELSE Ret(World, kResultOk)} :
         /\ Shared(IF d.x \/ ~ctx.modules[kHwiCommon].hmod THEN d.w
                   ELSE unloadPlugin(d.w, Nominal, ctx.modules[kHwiCommon].path).w)
         /\ process' = IF d.x THEN "crashed" ELSE process
         /\ th' = IF d.x THEN Returned(t, kResultException)
                  ELSE [th EXCEPT !.pc[t] = "unloadErase"]

\* internals.hmod = nullptr, ctx->interfaces.erase(feature), return
UnloadErase(t) ==
    /\ process = "up"
    /\ th.pc[t] = "unloadErase"
    /\ ctx' = [ctx EXCEPT !.modules[kHwiCommon].hmod = FALSE,
                          !.modules[kHwiCommon].pluginDeregister = FALSE,
                          !.interfaces[kHwiCommon] = <<>>]
    /\ gh' = [gh EXCEPT !.dereg[kHwiCommon] = FALSE]
    /\ th' = [Returned(t, kResultOk) EXCEPT
                !.held[t] = @ - 1, !.released = @ + 1, !.unlinks = @ + 1]
    /\ UNCHANGED <<disk, os, pl, process, ms, dumps, priv, poll, cuda>>

NextMT ==
    \E t \in Threads :
        \/ LoadRead(t)
        \/ LoadWrite(t)
        \/ UnloadRead(t)
        \/ UnloadWrite(t)
        \/ UnloadTest(t)
        \/ UnloadDeregister(t)
        \/ UnloadErase(t)

SpecMT == InitMT /\ [][NextMT]_vars

(***************************************************************************)
(* The minimum-spec checker on its own                                     *)
(***************************************************************************)
\* what a descriptor may require and what the system may report
MinDriverChoices == { Ver(0, 0, 0), Ver(560, 0, 0), Ver(560, 0, 1), Ver(999, 0, 0) }
MinOSChoices == { Ver(10, 0, 19041), Ver(10, 0, 22000), Ver(11, 0, 0) }
PluginAPIChoices == { Ver(0, 0, 1), Ver(0, 1, 0) }
VendorChoices == { "None", "Any", "NVDA", "AMD" }
MinGPUArchChoices == { 0, 400, 500 }
AdapterChoices == { [vendor |-> "NVDA", architecture |-> 400],
                    [vendor |-> "NVDA", architecture |-> 500],
                    [vendor |-> "AMD", architecture |-> 100] }
MaxAdapters == 2
AdapterLists == UNION { [1..n -> AdapterChoices] : n \in 0..MaxAdapters }

Descriptors ==
    [minDriver : MinDriverChoices, minOS : MinOSChoices, pluginAPI : PluginAPIChoices,
     requiredVendor : VendorChoices, minGPUArch : MinGPUArchChoices]

SystemCaps ==
    [driverVersion : { Ver(560, 0, 0) }, osVersion : { Ver(10, 0, 22000) },
     adapters : AdapterLists]

InitMinSpec ==
    /\ disk = {}
    /\ ctx = NullCtx
    /\ os = [f \in Files |-> 0]
    /\ pl = [f \in Files |-> FreshPlugin]
    /\ gh = [hostRefs |-> [k \in CountedKeys |-> 0],
             dereg |-> [p \in PluginIDs |-> FALSE],
             faults |-> 0,
             unmatched |-> 0,
             late |-> 0]
    /\ process = "up"
    /\ th = IdleThreads
    /\ ms \in [windows : BOOLEAN, info : Descriptors, caps : SystemCaps, verdict : {"none"}]
    /\ dumps = NoDumps
    /\ priv = NoPriv
    /\ poll = NoPoll
    /\ cuda = NoCuda

\* checkPluginMinSpec(info) with ctx->caps = ms.caps
CheckMinSpec ==
    /\ ms.verdict = "none"
    /\ ms' = [ms EXCEPT !.verdict = checkMinSpec(ms.windows, ms.info, ms.caps)]
    /\ UNCHANGED <<disk, ctx, os, pl, gh, process, th, dumps, priv, poll, cuda>>

NextMinSpec == CheckMinSpec

SpecMinSpec == InitMinSpec /\ [][NextMinSpec]_vars

(***************************************************************************)
(* Crash snapshots: writeMiniDump                                          *)
(***************************************************************************)
\* a snapshot directory, named by the time it was created at, with the
\* last write time of the directory
Dir(t) == [name |-> t, lastWriteTime |-> t]

\* the directory std::sort by last write time puts first
Oldest(dirs) == CHOOSE d \in dirs : \A e \in dirs : d.lastWriteTime <= e.lastWriteTime

\* a pruning that starts above the limit
deleteOldestDirectoryIfAbove(dirs, max_directories, removes) ==
    IF Cardinality(dirs) > max_directories /\ removes
    THEN dirs \ {Oldest(dirs)}
    ELSE dirs

\* deleteOldestDirectoryIfExceeds: the directories under the root once it
\* returned; removes says whether fs::remove_all succeeds (its exception
\* is caught and logged)
deleteOldestDirectoryIfExceeds(dirs, max_directories, removes) ==
    IF Cardinality(dirs) >= max_directories /\ removes
    THEN dirs \ {Oldest(dirs)}
    ELSE dirs

\* the runs start with the snapshots earlier crashes of the executable
\* left: writeMiniDump alone creates directories under the root
InitDumps ==
    /\ disk = {}
    /\ ctx = NullCtx
    /\ os = [f \in Files |-> 0]
    /\ pl = [f \in Files |-> FreshPlugin]
    /\ gh = [hostRefs |-> [k \in CountedKeys |-> 0],
             dereg |-> [p \in PluginIDs |-> FALSE],
             faults |-> 0,
             unmatched |-> 0,
             late |-> 0]
    /\ process = "up"
    /\ th = IdleThreads
    /\ ms = NoMinSpec
    /\ priv = NoPriv
    /\ poll = NoPoll
    /\ cuda = NoCuda
    /\ \E ts \in {s \in SUBSET (1..InitialClock) : Cardinality(s) <= kMaxAllowedDumps},
          ov \in BOOLEAN :
          dumps = [NoDumps EXCEPT !.dirs = {Dir(t) : t \in ts}, !.overridden = ov]

\* writeMiniDump at the next tick of the clock: with the location
\* overridden the dump file is written into that directory; else the root
\* of the executable is pruned and the directory of the snapshot created
writeMiniDump ==
    /\ dumps.clock < MaxClock
    /\ \E removes \in BOOLEAN :
          dumps' =
              IF dumps.overridden THEN [dumps EXCEPT !.clock = @ + 1, !.pruned = {}]
              ELSE [dumps EXCEPT
                      !.clock = @ + 1,
                      !.dirs = deleteOldestDirectoryIfExceeds(@, kMaxAllowedDumps, removes)
                                  \cup {Dir(dumps.clock + 1)},
                      !.pruned = dumps.dirs \ deleteOldestDirectoryIfExceeds(
                                                 dumps.dirs, kMaxAllowedDumps, removes),
                      !.failed = @ \/ (Cardinality(dumps.dirs) >= kMaxAllowedDumps /\ ~removes)]
    /\ UNCHANGED <<disk, ctx, os, pl, gh, process, th, ms, priv, poll, cuda>>

NextDumps == writeMiniDump

SpecDumps == InitDumps /\ [][NextDumps]_vars

(***************************************************************************)
(* Privileges: ScopedDowngradePrivileges around every entry point          *)
(***************************************************************************)
\* the privileges of the process token that are followed: two of the key
\* privileges downgradePrivileges lists and one it does not list
KeyPrivileges == {"SeDebugPrivilege", "SeBackupPrivilege"}

TokenPrivileges == KeyPrivileges \cup {"SeChangeNotifyPrivilege"}

\* calls into the framework nested in one another: the entry point, the
\* getInterface of a register it runs, the getInterface of a register that
\* one runs
MaxNesting == 3

\* every variable of the framework, the checker and the snapshots at rest
AtRest ==
    /\ disk = {}
    /\ ctx = NullCtx
    /\ os = [f \in Files |-> 0]
    /\ pl = [f \in Files |-> FreshPlugin]
    /\ gh = [hostRefs |-> [k \in CountedKeys |-> 0],
             dereg |-> [p \in PluginIDs |-> FALSE],
             faults |-> 0,
             unmatched |-> 0,
             late |-> 0]
    /\ process = "up"
    /\ th = IdleThreads
    /\ ms = NoMinSpec
    /\ dumps = NoDumps

\* disablePrivileges: AdjustTokenPrivileges disables the listed privileges
\* and returns as previous state the privileges it changed, which
\* s_privileges keeps
disablePrivileges(p, adjusts) ==
    IF ~adjusts THEN p
    ELSE [p EXCEPT !.enabled = @ \ KeyPrivileges,
                   !.s.prevPrivileges = p.enabled \cap KeyPrivileges]

\* downgradePrivileges; opens and adjusts tell whether OpenProcessToken and
\* AdjustTokenPrivileges succeed
downgradePrivileges(p, opens, adjusts) ==
    LET p1 == IF ~p.s.ranOnce
              THEN [p EXCEPT !.s.runningAsAdmin = p.admin, !.s.ranOnce = ~p.admin]
              ELSE p
    IN  IF p.s.flags THEN p
        ELSE IF ~p1.s.runningAsAdmin THEN p1
        ELSE IF ~opens THEN [p1 EXCEPT !.failed = TRUE]
        ELSE IF ~adjusts THEN [p1 EXCEPT !.s.hToken = FALSE, !.failed = TRUE]
        ELSE [disablePrivileges([p1 EXCEPT !.s.hToken = TRUE], adjusts)
                 EXCEPT !.s.ranOnce = TRUE]

\* restorePrivileges
restorePrivileges(p, adjusts) ==
    IF p.s.flags \/ ~p.s.runningAsAdmin THEN p
    ELSE IF ~p.s.hToken THEN p
    ELSE IF ~adjusts THEN [p EXCEPT !.failed = TRUE]
    ELSE [p EXCEPT !.enabled = @ \cup p.s.prevPrivileges, !.s.hToken = FALSE]

InitPrivileges ==
    /\ AtRest
    /\ poll = NoPoll
    /\ cuda = NoCuda
    /\ \E e \in SUBSET TokenPrivileges, a \in BOOLEAN :
          priv = [NoPriv EXCEPT !.enabled = e, !.entry = e, !.admin = a]

\* a public entry point is called by the host: nvigiInit sets the
\* preference flags first; then the guard of the entry point downgrades
EntryPointBegins ==
    /\ priv.depth = 0
    /\ \E init \in BOOLEAN, flags \in BOOLEAN, opens \in BOOLEAN, adjusts \in BOOLEAN :
          priv' = [downgradePrivileges(
                       [priv EXCEPT !.s.flags = IF init THEN flags ELSE @,
                                    !.entry = priv.enabled],
                       opens, adjusts)
                   EXCEPT !.depth = 1]
    /\ UNCHANGED <<disk, ctx, os, pl, gh, process, th, ms, dumps, poll, cuda>>

\* the register or deregister of a plugin, run by the call in progress,
\* calls getInterface or releaseInterface: the guard of nvigiLoadInterfaceImpl
\* or nvigiUnloadInterfaceImpl downgrades
NestedCallBegins ==
    /\ priv.depth >= 1 /\ priv.depth < MaxNesting
    /\ \E opens \in BOOLEAN, adjusts \in BOOLEAN :
          priv' = [downgradePrivileges(priv, opens, adjusts) EXCEPT !.depth = @ + 1]
    /\ UNCHANGED <<disk, ctx, os, pl, gh, process, th, ms, dumps, poll, cuda>>

\* the innermost call in progress returns: its guard restores
ScopeEnds ==
    /\ priv.depth >= 1
    /\ \E adjusts \in BOOLEAN :
          priv' = [restorePrivileges(priv, adjusts) EXCEPT !.depth = @ - 1]
    /\ UNCHANGED <<disk, ctx, os, pl, gh, process, th, ms, dumps, poll, cuda>>

NextPrivileges == EntryPointBegins \/ NestedCallBegins \/ ScopeEnds

SpecPrivileges == InitPrivileges /\ [][NextPrivileges]_vars

(***************************************************************************)
(* PollContext: results handed from a worker to the threads that poll      *)
(***************************************************************************)
\* the thread of the WorkerThread of the context, which runs the scheduled
\* work and calls triggerCallback, and the host threads that poll
Worker == "worker"

Pollers == {"h1", "h2"}

PollThreads == {Worker} \cup Pollers

\* values of T: the default value, the states a worker reports and the
\* states a host hands back
DefaultState == "none"

ReportedStates == {"DataPending", "Done"}

HandedBackStates == {"Continue", "Cancel"}

\* a PollContext after construction, no thread inside it
InitialPollContext ==
    [active |-> TRUE,
     resultPending |-> FALSE,
     resultPendingStatus |-> DefaultState,
     waiters |-> {},
     pc |-> [t \in PollThreads |-> "idle"],
     arg |-> [t \in PollThreads |-> DefaultState],
     out |-> [t \in Pollers |-> FALSE],
     got |-> [t \in Pollers |-> DefaultState],
     result |-> [t \in PollThreads |-> "none"],
     holds |-> [t \in Pollers |-> FALSE],
     signalled |-> FALSE,
     released |-> FALSE,
     handedBack |-> {}]

\* resultPendingCV.notify_one(): one of the threads blocked in wait, if
\* there is one, is unblocked
notify_one(waiters) ==
    IF waiters = {} THEN {{}} ELSE {waiters \ {t} : t \in waiters}

\* resultPendingCV.wait(lck) in the loop of waitResultPending and
\* waitResultConsumed for thread t, which holds the mutex and is not
\* blocked: it blocks while blocks holds, else it leaves the loop for next
waitLoop(p, t, blocks, next) ==
    IF blocks THEN [p EXCEPT !.waiters = @ \cup {t}]
    ELSE [p EXCEPT !.pc[t] = next]

InitPoll ==
    /\ AtRest
    /\ priv = NoPriv
    /\ cuda = NoCuda
    /\ poll = InitialPollContext

\* triggerCallback(state) is called on the worker: resultPendingStatus.store
triggerCallback ==
    /\ poll.pc[Worker] = "idle"
    /\ \E state \in ReportedStates :
          poll' = [poll EXCEPT !.pc[Worker] = "signalResultPending",
                               !.arg[Worker] = state,
                               !.result[Worker] = "none",
                               !.resultPendingStatus = state,
                               !.signalled = FALSE,
                               !.released = FALSE,
                               !.handedBack = {}]
    /\ UNCHANGED <<disk, ctx, os, pl, gh, process, th, ms, dumps, priv, cuda>>

signalResultPending ==
    /\ poll.pc[Worker] = "signalResultPending"
    /\ \E w \in notify_one(poll.waiters) :
          poll' = [poll EXCEPT !.pc[Worker] = "waitResultConsumed",
                               !.resultPending = TRUE,
                               !.waiters = w,
                               !.signalled = TRUE,
                               !.released = FALSE]
    /\ UNCHANGED <<disk, ctx, os, pl, gh, process, th, ms, dumps, priv, cuda>>

waitResultConsumed ==
    /\ poll.pc[Worker] = "waitResultConsumed" /\ Worker \notin poll.waiters
    /\ poll' = waitLoop(poll, Worker, poll.resultPending, "load")
    /\ UNCHANGED <<disk, ctx, os, pl, gh, process, th, ms, dumps, priv, cuda>>

\* return resultPendingStatus.load()
triggerCallbackReturns ==
    /\ poll.pc[Worker] = "load"
    /\ poll' = [poll EXCEPT !.pc[Worker] = "idle",
                            !.result[Worker] = poll.resultPendingStatus]
    /\ UNCHANGED <<disk, ctx, os, pl, gh, process, th, ms, dumps, priv, cuda>>

\* getResults(wait, state) is called on host thread t, state null or not
getResults(t) ==
    /\ poll.pc[t] = "idle" /\ ~poll.holds[t]
    /\ \E wait \in BOOLEAN, state \in BOOLEAN :
          poll' = [poll EXCEPT !.pc[t] = IF wait THEN "waitResultPending"
                                          ELSE "checkResultPending",
                               !.out[t] = state,
                               !.result[t] = "none"]
    /\ UNCHANGED <<disk, ctx, os, pl, gh, process, th, ms, dumps, priv, cuda>>

waitResultPending(t) ==
    /\ poll.pc[t] = "waitResultPending" /\ t \notin poll.waiters
    /\ poll' = waitLoop(poll, t, ~poll.resultPending, "state")
    /\ UNCHANGED <<disk, ctx, os, pl, gh, process, th, ms, dumps, priv, cuda>>

checkResultPending(t) ==
    /\ poll.pc[t] = "checkResultPending"
    /\ poll' = IF poll.resultPending THEN [poll EXCEPT !.pc[t] = "state"]
               ELSE [poll EXCEPT !.pc[t] = "idle", !.out[t] = FALSE,
                                 !.result[t] = kResultNotReady]
    /\ UNCHANGED <<disk, ctx, os, pl, gh, process, th, ms, dumps, priv, cuda>>

\* if (state) *state = resultPendingStatus; return kResultOk
getResultsReturns(t) ==
    /\ poll.pc[t] = "state"
    /\ poll' = [poll EXCEPT !.pc[t] = "idle",
                            !.got[t] = IF poll.out[t] THEN poll.resultPendingStatus ELSE @,
                            !.out[t] = FALSE,
                            !.result[t] = kResultOk,
                            !.holds[t] = TRUE]
    /\ UNCHANGED <<disk, ctx, os, pl, gh, process, th, ms, dumps, priv, cuda>>

\* releaseResults(state) is called on host thread t, which got a result:
\* resultPendingStatus = state
releaseResults(t) ==
    /\ poll.pc[t] = "idle" /\ poll.holds[t]
    /\ \E state \in HandedBackStates :
          poll' = [poll EXCEPT !.pc[t] = "signalResultConsumed",
                               !.arg[t] = state,
                               !.holds[t] = FALSE,
                               !.resultPendingStatus = state,
                               !.released = poll.signalled,
                               !.handedBack = IF poll.signalled THEN @ \cup {state} ELSE @]
    /\ UNCHANGED <<disk, ctx, os, pl, gh, process, th, ms, dumps, priv, cuda>>

signalResultConsumed(t) ==
    /\ poll.pc[t] = "signalResultConsumed"
    /\ \E w \in notify_one(poll.waiters) :
          poll' = [poll EXCEPT !.pc[t] = "idle",
                               !.resultPending = FALSE,
                               !.waiters = w,
                               !.arg[t] = DefaultState,
                               !.result[t] = kResultOk]
    /\ UNCHANGED <<disk, ctx, os, pl, gh, process, th, ms, dumps, priv, cuda>>

\* a wait of std::condition_variable returns without a notification
spuriousWakeup ==
    /\ \E t \in poll.waiters : poll' = [poll EXCEPT !.waiters = @ \ {t}]
    /\ UNCHANGED <<disk, ctx, os, pl, gh, process, th, ms, dumps, priv, cuda>>

\* the steps thread t takes once it is inside a call
Proceeds(t) ==
    IF t = Worker
    THEN signalResultPending \/ waitResultConsumed \/ triggerCallbackReturns
    ELSE \/ waitResultPending(t) \/ checkResultPending(t) \/ getResultsReturns(t)
         \/ signalResultConsumed(t)

NextPoll ==
    \/ triggerCallback
    \/ \E t \in Pollers : getResults(t) \/ releaseResults(t)
    \/ \E t \in PollThreads : Proceeds(t)
    \/ spuriousWakeup

SpecPoll == InitPoll /\ [][NextPoll]_vars

\* every thread that can take a step inside a call eventually takes one;
\* nothing obliges the host to make a call, nor a wait to return without
\* a notification
SpecPollFair == SpecPoll /\ \A t \in PollThreads : WF_vars(Proceeds(t))

(***************************************************************************)
(* Shared CUDA contexts of the hwi.cuda plugin                             *)
(***************************************************************************)
\* the command queues of the host: its direct queue and its asynchronous
\* compute queue; a null pointer
Queues == {"direct", "compute"}

NullQueue == "null"

\* the CUcontext handles the driver can give out; 0 is the null handle
MaxContexts == 3

CtxHandles == 1..MaxContexts

\* acquisitions the host holds at a time
MaxShared == 3

\* CudaContextInfo of a queue that is not in contextMap
NoContextInfo == [present |-> FALSE, ctx |-> 0, refcount |-> 0]

\* the plugin context after construction: contextMap empty, no context
\* alive in the driver; acquired counts, per context, the acquisitions the
\* host has not released, asked remembers the context handed out for each
\* queue a call named as params.queue
EmptyCudaContext ==
    [active |-> TRUE,
     contextMap |-> [q \in Queues |-> NoContextInfo],
     live |-> {},
     acquired |-> [h \in CtxHandles |-> 0],
     asked |-> [q \in Queues |-> 0]]

\* the outcome of a call: the plugin context after it, its Result and the
\* handle it wrote to *cuCtx
CudaOut(c, r, h) == [c |-> c, r |-> r, cuCtx |-> h]

\* ctx.contextMap.contains(queue)
contains(c, queue) == c.contextMap[queue].present

\* D3D12Parameters of a call and what the driver does in it: whether
\* CreateSharedCUDAContext succeeds with the direct and with the compute
\* queue, and the handle of a context it creates
CudaParams ==
    [device : BOOLEAN, queue : Queues \cup {NullQueue},
     queueCompute : Queues \cup {NullQueue}]

DriverChoices(c) ==
    [direct : BOOLEAN, compute : BOOLEAN, handle : CtxHandles \ c.live]

\* the lambda creaateSharedContext: the queue actually used, the handle of
\* the context created (0 when none was) and the Result; r = kResultOk
\* leaves the queue used in contextMap
creaateSharedContext(c, params, drv) ==
    LET cache(queue, h) ==
            IF contains(c, queue) THEN c
            ELSE [c EXCEPT !.contextMap[queue] =
                               [present |-> TRUE, ctx |-> h, refcount |-> 0],
                           !.live = IF h = 0 THEN @ ELSE @ \cup {h}]
    IN  IF contains(c, params.queue)
        THEN [c |-> c, r |-> kResultOk, actualQueueUsed |-> params.queue]
        ELSE IF drv.direct
        THEN [c |-> cache(params.queue, drv.handle), r |-> kResultOk,
              actualQueueUsed |-> params.queue]
        ELSE IF params.queueCompute = NullQueue
        THEN [c |-> c, r |-> kResultInvalidParameter, actualQueueUsed |-> params.queue]
        ELSE IF contains(c, params.queueCompute)
        THEN [c |-> c, r |-> kResultOk, actualQueueUsed |-> params.queueCompute]
        ELSE IF drv.compute
        THEN [c |-> cache(params.queueCompute, drv.handle), r |-> kResultOk,
              actualQueueUsed |-> params.queueCompute]
        ELSE [c |-> c, r |-> kResultDriverOutOfDate, actualQueueUsed |-> params.queueCompute]

\* the end of cudaGetSharedContextForQueue for the result s of the lambda:
\* the count of the queue used is incremented and its context handed out
shareContext(s) ==
    IF s.r # kResultOk THEN CudaOut(s.c, s.r, 0)
    ELSE CudaOut([s.c EXCEPT !.contextMap[s.actualQueueUsed].refcount = @ + 1],
                 kResultOk, s.c.contextMap[s.actualQueueUsed].ctx)

\* cudaGetSharedContextForQueue(params, cuCtx), cuCtx null or not
cudaGetSharedContextForQueue(c, params, outNull, drv) ==
    IF outNull \/ ~params.device \/ params.queue = NullQueue
    THEN CudaOut(c, kResultInvalidParameter, 0)
    ELSE shareContext(creaateSharedContext(c, params, drv))

\* the first queue of contextMap, in the order of the map, whose context is
\* cuCtx; NullQueue when there is none
QueueOf(c, cuCtx) ==
    IF contains(c, "compute") /\ c.contextMap["compute"].ctx = cuCtx THEN "compute"
    ELSE IF contains(c, "direct") /\ c.contextMap["direct"].ctx = cuCtx THEN "direct"
    ELSE NullQueue

\* a release that destroys a context only once its count is below zero
cudaReleaseBelowZero(c, cuCtx) ==
    IF QueueOf(c, cuCtx) = NullQueue THEN CudaOut(c, kResultInvalidParameter, cuCtx)
    ELSE IF c.contextMap[QueueOf(c, cuCtx)].refcount - 1 < 0
    THEN CudaOut([c EXCEPT !.contextMap[QueueOf(c, cuCtx)] = NoContextInfo,
                           !.live = @ \ {cuCtx}],
                 kResultOk, cuCtx)
    ELSE CudaOut([c EXCEPT !.contextMap[QueueOf(c, cuCtx)].refcount = @ - 1],
                 kResultOk, cuCtx)

\* cudaReleaseSharedContext(cuCtx)
cudaReleaseSharedContext(c, cuCtx) ==
    IF QueueOf(c, cuCtx) = NullQueue THEN CudaOut(c, kResultInvalidParameter, cuCtx)
    ELSE IF c.contextMap[QueueOf(c, cuCtx)].refcount - 1 <= 0
    THEN CudaOut([c EXCEPT !.contextMap[QueueOf(c, cuCtx)] = NoContextInfo,
                           !.live = @ \ {cuCtx}],
                 kResultOk, cuCtx)
    ELSE CudaOut([c EXCEPT !.contextMap[QueueOf(c, cuCtx)].refcount = @ - 1],
                 kResultOk, cuCtx)

\* the acquisitions the host holds
SharedHeld(c) == c.contextMap["direct"].refcount + c.contextMap["compute"].refcount

InitCuda ==
    /\ AtRest
    /\ priv = NoPriv
    /\ poll = NoPoll
    /\ cuda = EmptyCudaContext

\* the host calls cudaGetSharedContextForQueue
GetSharedContextForQueue ==
    /\ SharedHeld(cuda) < MaxShared
    /\ \E params \in CudaParams, outNull \in BOOLEAN, drv \in DriverChoices(cuda) :
          \E o \in {cudaGetSharedContextForQueue(cuda, params, outNull, drv)} :
              cuda' = IF o.r # kResultOk THEN o.c
                      ELSE [o.c EXCEPT !.acquired[o.cuCtx] = @ + 1,
                                       !.asked[params.queue] = o.cuCtx]
    /\ UNCHANGED <<disk, ctx, os, pl, gh, process, th, ms, dumps, priv, poll>>

\* the host calls cudaReleaseSharedContext with a context it holds, with a
\* context it released before, or with the null handle
ReleaseSharedContext ==
    /\ \E cuCtx \in {0} \cup CtxHandles :
          \E o \in {cudaReleaseSharedContext(cuda, cuCtx)} :
              cuda' = IF o.r # kResultOk THEN o.c
                      ELSE [o.c EXCEPT
                              !.acquired[cuCtx] = IF cuCtx \in o.c.live THEN @ - 1 ELSE 0,
                              !.asked = [q \in Queues |->
                                           IF @[q] = cuCtx /\ cuCtx \notin o.c.live
                                           THEN 0 ELSE @[q]]]
    /\ UNCHANGED <<disk, ctx, os, pl, gh, process, th, ms, dumps, priv, poll>>

NextCuda == GetSharedContextForQueue \/ ReleaseSharedContext

SpecCuda == InitCuda /\ [][NextCuda]_vars

(***************************************************************************)
(* Properties.  Each is stated over the outcomes of the calls a host can   *)
(* make in the current state.                                              *)
(***************************************************************************)
\* the world the call after outcome o starts from
After(o) == [o.w EXCEPT !.tr = <<>>]

\* the environments, arguments and Preferences values of the calls that
\* the test of ctx decides
AnyEnv == EnvSet({}, {}, Files, RdKinds)
AnyType == PluginTypes \cup {"ISystem"}
AnyPath == {"", "hwi", "invalid"}
AnyPrefs == [paths : {<<"sdk", "hwi">>, <<"invalid">>}, deps : {""},
             magic : BOOLEAN, dupLibs : {FALSE}, registerPlugins : {<<>>}]

\* the framework states of the specification: Running is ctx != nullptr
Running(w) == w.ctx.alive
Uninitialized(w) == ~w.ctx.alive

\* the registry, the module table and the discovery report are those of c
SameTables(w, c) ==
    /\ w.ctx.modules = c.modules
    /\ w.ctx.interfaces = c.interfaces
    /\ w.ctx.pluginSpecs = c.pluginSpecs
    /\ w.ctx.numDetectedPlugins = c.numDetectedPlugins

\* the outcome is a failure with InvalidState that changed nothing of w
Rejected(o, w) == Result(o) = kResultInvalidState /\ o.w = w

\* every call but initialize, made in world w with non-null pointers, an
\* identity of ids and a path of paths, in an environment of envs, fails
\* with InvalidState and changes nothing
OtherCallsRejected(w, ids, paths, envs) ==
    /\ \A env \in envs : Rejected(ShutdownImpl(w, env), w)
    /\ \A p \in ids, t \in AnyType, path \in paths :
          Rejected(LoadInterface(w, Nominal, p, t, path, FALSE), w)
    /\ \A p \in ids, t \in AnyType :
          Rejected(UnloadInterface(w, Nominal, p, t, FALSE), w)

\* what the two calls return when their interface pointer is null
NullPointerResults(w, ids, paths) ==
    /\ \A p \in ids, t \in AnyType, path \in paths :
          Result(LoadInterface(w, Nominal, p, t, path, TRUE)) = kResultInvalidParameter
    /\ \A p \in ids, t \in AnyType :
          Result(UnloadInterface(w, Nominal, p, t, TRUE)) = kResultMissingInterface

\* calls with a null interface pointer fail with InvalidState too
NullCallsRejected(w, ids, paths) ==
    /\ \A p \in ids, t \in AnyType, path \in paths :
          Result(LoadInterface(w, Nominal, p, t, path, TRUE)) = kResultInvalidState
    /\ \A p \in ids, t \in AnyType :
          Result(UnloadInterface(w, Nominal, p, t, TRUE)) = kResultInvalidState

\* an initialize in world w is not rejected as already running: it creates
\* the context
InitAccepted(w) ==
    \A pref \in AnyPrefs, caps \in CapsChoices :
        With(InitImpl(w, Nominal, pref, caps),
             LAMBDA o : Happened(o.w.tr, "newCtx") /\ Running(o.w))

\* environments of a shutdown: a module may fail to unload, and a read
\* through a dangling pointer may yield anything
ShutdownEnvs == EnvSet({}, {}, Mapped(disk), ShutdownReads(ctx, pl))

\* C9: a second initialize while the framework is Running fails with
\* InvalidState and leaves the module table, the interface registry and the
\* discovery report (and everything else) unchanged, whatever Preferences
\* are passed.
C9_SecondInitRejected ==
    Running(World) =>
        \A pref \in AnyPrefs, caps \in CapsChoices :
            With(InitImpl(World, Nominal, pref, caps),
                 LAMBDA o : /\ Result(o) = kResultInvalidState
                            /\ SameTables(o.w, ctx)
                            /\ o.w = World)

\* C9 witness: the framework is Running with a plugin linked and an
\* interface held, and an initialize is rejected with the tables unchanged
C9_Witness ==
    /\ Running(World)
    /\ \E p \in DiskIds : ctx.modules[p].hmod /\ ctx.interfaces[p] # <<>>
    /\ SumRefs(gh.hostRefs) > 0
    /\ \E pref \in Prefs, caps \in CapsChoices :
          With(InitImpl(World, Nominal, pref, caps),
               LAMBDA o : Result(o) = kResultInvalidState /\ SameTables(o.w, ctx))

\* C10 as stated: while Uninitialized every call other than initialize,
\* with any arguments (a null interface pointer included), fails with
\* InvalidState.
C10_AnyCallInvalidState ==
    Uninitialized(World) => OtherCallsRejected(World, PluginIDs, AnyPath, AnyEnv) /\ NullCallsRejected(World, PluginIDs, AnyPath)

\* C10 amended: while Uninitialized, shutdown fails with InvalidState, and
\* loadInterface and unloadInterface fail with InvalidState whenever their
\* interface pointer is not null; with a null pointer loadInterface fails
\* with InvalidParameter and unloadInterface with MissingInterface.  No call
\* changes anything.
C10_NonNullCallInvalidState ==
    Uninitialized(World) => OtherCallsRejected(World, PluginIDs, AnyPath, AnyEnv) /\ NullPointerResults(World, PluginIDs, AnyPath)

\* C10 witness: the framework is Uninitialized after a run that left a
\* module mapped, and the calls are rejected
C10_Witness ==
    /\ Uninitialized(World)
    /\ \E f \in Files : os[f] > 0
    /\ OtherCallsRejected(World, PluginIDs, AnyPath, AnyEnv)
    /\ NullPointerResults(World, PluginIDs, AnyPath)

\* C8 as stated: after shutdown returns Ok or InvalidState the state is
\* Uninitialized: a following initialize is not rejected as already running
\* and any other call, whatever its arguments, fails with InvalidState.
C8_ShutdownThenAnyCallInvalidState ==
    Running(World) =>
        \A env \in ShutdownEnvs :
            \A o \in {ShutdownImpl(World, env)} :
                Result(o) \in {kResultOk, kResultInvalidState} =>
                    /\ Uninitialized(o.w)
                    /\ InitAccepted(After(o))
                    /\ OtherCallsRejected(After(o), Named, {""}, {Nominal})
                    /\ NullCallsRejected(After(o), Named, {""})

\* C8 amended: after shutdown returns Ok or InvalidState (leaks, failed
\* unloads) the state is Uninitialized: a following initialize is not
\* rejected as already running, and any other call made with a non-null
\* interface pointer fails with InvalidState (with a null pointer
\* loadInterface fails with InvalidParameter and unloadInterface with
\* MissingInterface).
C8_ShutdownLeavesUninitialized ==
    Running(World) =>
        \A env \in ShutdownEnvs :
            \A o \in {ShutdownImpl(World, env)} :
                Result(o) \in {kResultOk, kResultInvalidState} =>
                    /\ Uninitialized(o.w)
                    /\ InitAccepted(After(o))
                    /\ OtherCallsRejected(After(o), Named, {""}, {Nominal})
                    /\ NullPointerResults(After(o), Named, {""})

\* C8 witness: a shutdown that finds a leak returns InvalidState, and
\* afterwards the framework is Uninitialized and accepts an initialize
C8_Witness ==
    /\ Running(World)
    /\ \E env \in ShutdownEnvs :
          \E o \in {ShutdownImpl(World, env)} :
              /\ Result(o) = kResultInvalidState
              /\ Happened(o.w.tr, "leak")
              /\ Uninitialized(o.w)
              /\ InitAccepted(After(o))
              /\ OtherCallsRejected(After(o), Named, {""}, {Nominal})

\* the host can make a call: no call has ended in an assert or an access
\* violation
Up == process = "up"

\* the plugin of identity p is linked: its module record holds the handle
Linked(w, p) == w.ctx.modules[p].present /\ w.ctx.modules[p].hmod

\* plugin instances that acquired interface t of p in register and did not
\* release it (register acquires the T1 interface of its dependency)
Holders(w, p, t) ==
    {f \in Files : /\ t = "T1" /\ w.pl[f].holds
                   /\ \E i \in 1..Len(PluginDef[f].deps) : PluginDef[f].deps[i] = p}

\* acquisitions of the counted interface <<p, t>> not yet released
Acquired(w, p, t) == w.gh.hostRefs[<<p, t>>] + Cardinality(Holders(w, p, t))

\* the events e about identity p in the trace of a call
EventsOf(tr, e, p) == {i \in 1..Len(tr) : tr[i].e = e /\ tr[i].p = p}

\* the registry entry of type t in list
EntryOf(list, t) == list[FirstIdx(list, LAMBDA e : e.type = t)]

\* a release by the host, no module misbehaving; a read through a dangling
\* pointer, if the registry holds one, yields rd
HostRelease(w, rd, p, t) == UnloadInterface(w, [Nominal EXCEPT !.rd = rd], p, t, FALSE)

\* a release of <<p, t>> by the host matches an acquisition
Matching(w, p, t) == <<p, t>> \in CountedKeys /\ w.gh.hostRefs[<<p, t>>] >= 1

\* no module misbehaved and every release matched an acquisition so far
NominalRun(w) == w.gh.faults = 0 /\ w.gh.unmatched = 0

\* the counted interface <<p, t>> of the linked plugin p is held by the host
\* and no other interface of p is referenced: every other entry is counted
\* and acquired by nobody
SoleReferenced(w, p, t) ==
    /\ Running(w) /\ Linked(w, p) /\ NominalRun(w)
    /\ Matching(w, p, t)
    /\ \A j \in 1..Len(w.ctx.interfaces[p]) :
          w.ctx.interfaces[p][j].type # t =>
              /\ Counted(w.ctx.interfaces[p][j])
              /\ Acquired(w, p, w.ctx.interfaces[p][j].type) = 0

\* the module file recorded for identity p
ModuleFile(w, p) == w.ctx.modules[p].path

\* FreeLibrary was called on the module of p: it unmapped the module, or
\* dropped one of several OS references
Unloads(tr, p) == EventsOf(tr, "free", p) \cup EventsOf(tr, "stillLoaded", p)

\* a release left p linked: nothing of p was deregistered or unloaded
StaysLinked(w, o, p) ==
    /\ Linked(o.w, p)
    /\ Len(o.w.ctx.interfaces[p]) = Len(w.ctx.interfaces[p])
    /\ o.w.os[ModuleFile(w, p)] = w.os[ModuleFile(w, p)]
    /\ EventsOf(o.w.tr, "deregister", p) = {}
    /\ Unloads(o.w.tr, p) = {}

\* a release unlinked p: deregister was called once, then the module was
\* unloaded, the module record cleared and the list of p erased
Unlinked(w, o, p) ==
    /\ ~Linked(o.w, p)
    /\ o.w.ctx.interfaces[p] = <<>>
    /\ Cardinality(EventsOf(o.w.tr, "deregister", p)) = 1
    /\ \E i \in EventsOf(o.w.tr, "deregister", p), j \in Unloads(o.w.tr, p) : i < j
    /\ o.w.os[ModuleFile(w, p)] = w.os[ModuleFile(w, p)] - 1

\* C1: reference symmetry.  A counted interface of a linked plugin that was
\* acquired N >= 1 times (the registry counts exactly N), no other interface
\* of the plugin being referenced, needs N matching releases: a release
\* with N > 1 leaves the plugin linked with count N - 1, and the release
\* with N = 1 deregisters the plugin, unmaps its module and unlinks it.
C1_ReferenceSymmetry ==
    \A p \in DiskIds, t \in PluginTypes :
        (Up /\ SoleReferenced(World, p, t)) =>
            /\ EntryOf(ctx.interfaces[p], t).refCount = Acquired(World, p, t)
            /\ \A rd \in Reads(ctx) :
                  With(HostRelease(World, rd, p, t), LAMBDA o :
                      /\ Result(o) = kResultOk
                      /\ IF Acquired(World, p, t) > 1
                         THEN /\ StaysLinked(World, o, p)
                              /\ EntryOf(o.w.ctx.interfaces[p], t).refCount
                                     = Acquired(World, p, t) - 1
                         ELSE /\ Unlinked(World, o, p)
                              /\ o.w.os[ModuleFile(World, p)] = 0)

\* C1 witness: an interface acquired twice; the first release leaves the
\* plugin linked, the second one unlinks and unloads it
C1_Witness ==
    \E p \in DiskIds, t \in PluginTypes :
        /\ Up /\ SoleReferenced(World, p, t)
        /\ Acquired(World, p, t) = 2
        /\ With(HostRelease(World, "stale", p, t), LAMBDA o :
              /\ StaysLinked(World, o, p)
              /\ SoleReferenced(After(o), p, t)
              /\ With(HostRelease(After(o), "stale", p, t), LAMBDA o2 :
                    Unlinked(After(o), o2, p) /\ o2.w.os[ModuleFile(World, p)] = 0))

\* another entry of the list keeps the plugin of a released interface t
\* linked: it is not counted, or its count is positive
Blocked(list, t) ==
    \E j \in 1..Len(list) :
        list[j].type # t /\ (~Counted(list[j]) \/ list[j].refCount > 0)

\* the release of t takes the count of a counted entry to zero
ReachesZero(list, t) ==
    \E i \in 1..Len(list) :
        list[i].type = t /\ Counted(list[i]) /\ list[i].refCount - 1 <= 0

\* every counted entry of list is at zero once t is released
AllAtZero(list, t) ==
    \A i \in 1..Len(list) :
        Counted(list[i]) => (IF list[i].type = t THEN list[i].refCount - 1
                             ELSE list[i].refCount) = 0

\* C2: all-or-nothing unload.  A release on a linked plugin P deregisters
\* and unloads P and erases its whole interface list exactly when the
\* released counted entry reaches zero and no other entry blocks it (none is
\* not-counted, none has a positive count); otherwise, and so when only one
\* of two registered interfaces reaches zero, P remains loaded with its list
\* kept.  When the release matches an acquisition, in a run without
\* misbehaving modules and unmatched releases, every counted entry is exactly
\* at zero and the module is unmapped when P is unloaded.
C2_AllOrNothingUnload ==
    \A p \in DiskIds, t \in PluginTypes :
        (Up /\ Running(World) /\ Linked(World, p)) =>
            \A rd \in Reads(ctx) :
                With(HostRelease(World, rd, p, t), LAMBDA o :
                    IF ReachesZero(ctx.interfaces[p], t) /\ ~Blocked(ctx.interfaces[p], t)
                    THEN /\ Unlinked(World, o, p)
                         /\ (NominalRun(World) /\ Matching(World, p, t)) =>
                               AllAtZero(ctx.interfaces[p], t) /\ o.w.os[ModuleFile(World, p)] = 0
                    ELSE StaysLinked(World, o, p))

\* C2 witness: a plugin with two counted interfaces, each acquired once;
\* the release of the first leaves it loaded, the release of the second
\* unloads it and erases the list
C2_Witness ==
    \E p \in DiskIds :
        /\ Up /\ Running(World) /\ Linked(World, p) /\ NominalRun(World)
        /\ Len(ctx.interfaces[p]) = 2
        /\ \A i \in 1..2 : Counted(ctx.interfaces[p][i]) /\ ctx.interfaces[p][i].refCount = 1
        /\ With(HostRelease(World, "stale", p, "T1"), LAMBDA o :
              /\ StaysLinked(World, o, p)
              /\ With(HostRelease(After(o), "stale", p, "T2"), LAMBDA o2 :
                    /\ Unlinked(After(o), o2, p)
                    /\ o2.w.ctx.interfaces[p] = <<>>))

\* a getInterface by the host in environment env
HostAcquire(w, env, p, t) == LoadInterface(w, env, p, t, "", FALSE)

\* a shutdown, no module misbehaving
HostShutdown(w, rd) == ShutdownImpl(w, [Nominal EXCEPT !.rd = rd])

\* the deregister calls of one public call are in order: none is made while
\* a reference to an interface of the plugin is outstanding, none is a
\* second call for the same link, none goes into an unmapped module, and
\* the next thing that happens to the plugin's module is its unload
DeregisterInOrder(tr) ==
    /\ ~Happened(tr, "again")
    /\ ~Happened(tr, "danglingCall")
    /\ \A i \in 1..Len(tr) :
          tr[i].e = "deregister" =>
              /\ tr[i].t # "ext"
              /\ \E j \in Unloads(tr, tr[i].p) :
                    /\ i < j
                    /\ \A k \in (i + 1)..(j - 1) :
                          tr[k].p = tr[i].p => tr[k].e \notin {"deregister", "link", "load"}

\* C3: for each link of a plugin its deregister entry point is called
\* exactly once, immediately before the module is unloaded, and only when
\* no external reference to any of its interfaces remains, in every
\* getInterface, every releaseInterface (the releases a plugin's deregister
\* makes included) and every shutdown of a host that holds no reference.
C3_DeregisterOncePerLink ==
    (Up /\ Running(World) /\ NominalRun(World)) =>
        /\ \A p \in Named, t \in PluginTypes :
              DeregisterInOrder(HostAcquire(World, Nominal, p, t).w.tr)
        /\ \A p \in Named, t \in PluginTypes :
              Matching(World, p, t) =>
                  \A rd \in Reads(ctx) : DeregisterInOrder(HostRelease(World, rd, p, t).w.tr)
        /\ SumRefs(gh.hostRefs) = 0 =>
              \A rd \in RdKinds : DeregisterInOrder(HostShutdown(World, rd).w.tr)

\* the failures of a plugin's module that make a getInterface fail in
\* registerPlugin
LinkFaults == {"load", "getFunc", "entry", "getInfo", "setup", "register"}

\* the count of no interface of identity d in w is higher than in w0
NoCountAbove(w, w0, d) ==
    \A i \in 1..Len(w.ctx.interfaces[d]) :
        w.ctx.interfaces[d][i].refCount <=
            (IF i <= Len(w0.ctx.interfaces[d]) THEN w0.ctx.interfaces[d][i].refCount ELSE 0)

\* nothing of a failed link of p is left in w; w0 is the world before the call
RolledBack(w, w0, p) ==
    /\ w.os[FileOfId(p)] = 0
    /\ ~Linked(w, p) /\ ~w.ctx.modules[p].pluginDeregister
    /\ w.ctx.interfaces[p] = <<>>
    /\ ~w.pl[FileOfId(p)].holds
    /\ \A i \in 1..Len(PluginDef[FileOfId(p)].deps) :
          NoCountAbove(w, w0, PluginDef[FileOfId(p)].deps[i])

\* p is a discovered plugin that is not linked and whose module is not mapped
Unlinkable(w, p) ==
    /\ p \in DiskIds /\ w.ctx.modules[p].present /\ ~w.ctx.modules[p].hmod
    /\ w.ctx.interfaces[p] = <<>>
    /\ w.os[FileOfId(p)] = 0

\* C4: when a getInterface fails because the target plugin fails to load or
\* to register (load failure, missing entry point, getInfo failure, min-spec
\* failure, register returning an error) the error is returned and the link
\* is rolled back: on return the module is not mapped, its module record is
\* unlinked, the registry holds no interface of the identity and no
\* reference acquired by the failed register is still held.
C4_FailedLinkRolledBack ==
    (Up /\ Running(World) /\ NominalRun(World)) =>
        \A p \in DiskIds, t \in PluginTypes :
            Unlinkable(World, p) =>
                \A env \in EnvSet({FileOfId(p)}, LinkFaults, {}, {"stale"}) :
                    With(HostAcquire(World, env, p, t), LAMBDA o :
                        (Result(o) # kResultOk /\ ~Linked(o.w, p)) =>
                            RolledBack(o.w, World, p))

\* C5: no reference count of a counted interface is below zero, and no
\* plugin is unloaded while the host holds an acquired reference to one of
\* its interfaces, after any sequence of getInterface and releaseInterface
\* calls, releases without a matching acquisition included, no module
\* misbehaving.
C5_NoUnderflow ==
    (Up /\ Running(World) /\ gh.faults = 0) =>
        /\ \A p \in PluginIDs : \A i \in 1..Len(ctx.interfaces[p]) :
              Counted(ctx.interfaces[p][i]) => ctx.interfaces[p][i].refCount >= 0
        /\ \A k \in CountedKeys : gh.hostRefs[k] > 0 => Linked(World, k[1])

\* C6: when the host holds no reference (it released every interface it
\* acquired) shutdown returns Ok and reports no leak, whatever plugins are
\* linked and whatever references plugins hold on each other.
C6_CleanShutdownOk ==
    (Up /\ Running(World) /\ NominalRun(World) /\ SumRefs(gh.hostRefs) = 0) =>
        \A rd \in RdKinds :
            With(HostShutdown(World, rd), LAMBDA o :
                Result(o) = kResultOk /\ ~Happened(o.w.tr, "leak"))

\* the counted entries with a positive count, as <<identity, type>>
LeakedKeys(w) ==
    {k \in PluginIDs \X PluginTypes :
        \E i \in 1..Len(w.ctx.interfaces[k[1]]) :
            /\ w.ctx.interfaces[k[1]][i].type = k[2]
            /\ Counted(w.ctx.interfaces[k[1]][i])
            /\ w.ctx.interfaces[k[1]][i].refCount > 0}

\* C7: shutdown logs each counted interface with a positive count as a leak
\* and downgrades its result to InvalidState, but continues: every module
\* still linked is deregistered and unloaded, whatever number of leaks was
\* found.
C7_ShutdownContinues ==
    (Up /\ Running(World) /\ NominalRun(World)) =>
        \A rd \in RdKinds :
            With(HostShutdown(World, rd), LAMBDA o :
                /\ Result(o) = (IF LeakedKeys(World) = {} THEN kResultOk ELSE kResultInvalidState)
                /\ \A k \in LeakedKeys(World) :
                      \E i \in EventsOf(o.w.tr, "leak", k[1]) : o.w.tr[i].t = k[2]
                /\ \A p \in DiskIds :
                      Linked(World, p) =>
                          /\ EventsOf(o.w.tr, "deregister", p) # {}
                          /\ Unloads(o.w.tr, p) # {}
                          /\ o.w.os[FileOfId(p)] = 0)

(***************************************************************************)
(* Discovery                                                               *)
(***************************************************************************)
\* environments of an initialize: a candidate module may misbehave during
\* discovery or fail to unload
InitEnvs == EnvSet(disk, DiscoveryFaults, disk, {"stale"})

\* identities the override file lists for eager linking
EagerIds(pref) == {PluginDef[pref.registerPlugins[i]].id : i \in 1..Len(pref.registerPlugins)}

\* identities whose interface the register of an eager-listed plugin acquires
DepsOf(f) == {PluginDef[f].deps[j] : j \in 1..Len(PluginDef[f].deps)}
EagerDeps(pref) == UNION {DepsOf(pref.registerPlugins[i]) : i \in 1..Len(pref.registerPlugins)}

\* the candidate modules in the directories an initialize scans
Candidates(pref) == {f \in disk : \E i \in 1..Len(pref.paths) : pref.paths[i] = FileDir(f)}

\* discovery without an eager list: one report entry per candidate, no
\* register call, no module linked, no module mapped that was not before
ReportOnly(w, o, pref) ==
    /\ Len(o.w.ctx.pluginSpecs) = Cardinality(Candidates(pref))
    /\ o.w.ctx.numDetectedPlugins = Cardinality(Candidates(pref))
    /\ \A p \in PluginIDs : ~Linked(o.w, p) /\ EventsOf(o.w.tr, "register", p) = {}
    /\ o.w.os = w.os

\* initialize with Preferences pref in environment env: register is called
\* only for the identities of allowed, and a scan without eager list that
\* returns Ok with no module misbehaving only reports
InitLinksOnly(w, env, pref, allowed) ==
    \A o \in {InitImpl(w, env, pref, CHOOSE c \in CapsChoices : TRUE)} :
        /\ \A p \in PluginIDs :
              (EventsOf(o.w.tr, "register", p) # {} \/ Linked(o.w, p)) => p \in allowed
        /\ (Result(o) = kResultOk /\ pref.registerPlugins = <<>> /\ env = Nominal) =>
              ReportOnly(w, o, pref)

\* C11 as stated: discovery never links.  After an initialize the register
\* entry point was called for no plugin that is not eager-listed, and a scan
\* of K candidate modules with none requested yields a report with K entries
\* and no linked module.
C11_DiscoveryNeverLinks ==
    (Up /\ Uninitialized(World)) =>
        \A pref \in Prefs, env \in InitEnvs :
            InitLinksOnly(World, env, pref, EagerIds(pref))

\* C11 amended: after an initialize the register entry point was called only
\* for plugins that are eager-listed or whose interface the register of an
\* eager-listed plugin acquires, and a scan of K candidate modules with none
\* requested yields a report with K entries and no linked module.
C11_DiscoveryLinksOnlyRequested ==
    (Up /\ Uninitialized(World)) =>
        \A pref \in Prefs, env \in InitEnvs :
            InitLinksOnly(World, env, pref, EagerIds(pref) \cup EagerDeps(pref))

\* C11 witness: an installation of two plugins is scanned; without eager list
\* the report has two entries and nothing is linked, with one plugin
\* eager-listed that plugin and its dependency are linked
C11_Witness ==
    /\ Up /\ Uninitialized(World) /\ disk = {"fA", "fB"}
    /\ \E pref \in Prefs, caps \in CapsChoices :
          /\ pref.registerPlugins = <<>>
          /\ With(InitImpl(World, Nominal, pref, caps), LAMBDA o :
                /\ Result(o) = kResultOk /\ Len(o.w.ctx.pluginSpecs) = 2
                /\ ReportOnly(World, o, pref))
    /\ \E pref \in Prefs, caps \in CapsChoices :
          /\ pref.registerPlugins = <<"fA">>
          /\ With(InitImpl(World, Nominal, pref, caps), LAMBDA o :
                Result(o) = kResultOk /\ Linked(o.w, 1) /\ Linked(o.w, 2))

\* environments of a discovery in which a candidate lacks its entry point
\* or answers getInfo with an error
CandidateFaults == EnvSet(disk, {"getFunc", "getInfo"}, {}, {"stale"})

\* C12: discovery never leaves a module mapped.  At init and at the late
\* discovery of getInterface every candidate that was transiently loaded is
\* unloaded again, whatever the outcome of the candidate (accepted, min-spec
\* rejected, duplicate identity, out of date, not the requested identity,
\* entry point not found, getInfo returning an error): the modules mapped
\* after the discovery are those mapped before it.
C12_DiscoveryLeavesNothingMapped ==
    Up =>
        /\ Uninitialized(World) =>
              \A pref \in Prefs, caps \in CapsChoices, env \in CandidateFaults :
                  pref.registerPlugins = <<>> =>
                      InitImpl(World, env, pref, caps).w.os = os
        /\ Running(World) =>
              \A p \in Named, path \in Dirs, env \in CandidateFaults :
                  LateDiscovery(World, env, p, path).w.os = os

(***************************************************************************)
(* Reentrant registration                                                  *)
(***************************************************************************)
\* the reference count of the entry of type t of identity p, 0 without entry
CountOf(w, p, t) ==
    IF \E i \in 1..Len(w.ctx.interfaces[p]) : w.ctx.interfaces[p][i].type = t
    THEN EntryOf(w.ctx.interfaces[p], t).refCount ELSE 0

\* the interface types module file f registers
Offers(f) == {PluginDef[f].adds[i].type : i \in 1..Len(PluginDef[f].adds)}

\* the plugin of module file f is recorded and not linked, its register
\* acquires an interface of another plugin, whose module discovery recorded
WillReenter(w, f) ==
    /\ f \in w.disk /\ PluginDef[f].deps # <<>>
    /\ Enumerated(w, f) /\ ~Linked(w, PluginDef[f].id)
    /\ w.ctx.interfaces[PluginDef[f].id] = <<>>
    /\ w.ctx.modules[PluginDef[f].deps[1]].path # ""

\* the adapters the framework found satisfy the requirements of module f
MeetsMinSpec(w, f) == checkPluginMinSpec(PluginDef[f], w.ctx.caps) = kResultOk

\* the getInterface for type t of module f's plugin, with its outcome o: the
\* getInterface made inside register ran and returned; when the outer call
\* returns Ok both plugins are linked, register ran once, and the count of
\* the dependency's interface is one higher, on behalf of f
Reentered(w, o, f, t) ==
    /\ EventsOf(o.w.tr, "register", PluginDef[f].id) # {} =>
          \/ EventsOf(o.w.tr, "fault", PluginDef[f].id) # {}
          \/ o.w.pl[f].holds
          \/ Result(o) # kResultOk
    /\ Result(o) = kResultOk =>
          /\ Linked(o.w, PluginDef[f].id) /\ Linked(o.w, PluginDef[f].deps[1])
          /\ Cardinality(EventsOf(o.w.tr, "register", PluginDef[f].id)) = 1
          /\ Cardinality(EventsOf(o.w.tr, "register", PluginDef[f].deps[1])) =
                (IF Linked(w, PluginDef[f].deps[1]) THEN 0 ELSE 1)
          /\ CountOf(o.w, PluginDef[f].deps[1], "T1") = CountOf(w, PluginDef[f].deps[1], "T1") + 1
          /\ o.w.pl[f].holds /\ o.w.pl[f].hwiCommon

\* C15: reentrant registration of different identities is tolerated.  A
\* getInterface for identity B made from inside the register of plugin A
\* (A # B), while the outer getInterface for A is in progress, completes;
\* with no module misbehaving the outer call for a type A offers returns
\* Ok, and whenever the outer call returns Ok both A and B are linked and
\* the count of B's interface was incremented exactly once on behalf of A.
C15_ReentrantRegistration ==
    (Up /\ Running(World)) =>
        \A f \in disk, t \in PluginTypes :
            WillReenter(World, f) =>
                /\ PluginDef[f].deps[1] # PluginDef[f].id
                /\ \A env \in EnvSet(Rel(PluginDef[f].id), FaultKinds, {}, Reads(ctx)) :
                      \A o \in {LoadInterface(World, env, PluginDef[f].id, t, "", FALSE)} :
                          /\ Reentered(World, o, f, t)
                          /\ (env.pf = NoFault /\ ~Dangling(ctx) /\ t \in Offers(f)
                                 /\ MeetsMinSpec(World, f)
                                 /\ MeetsMinSpec(World, ModuleFile(World, PluginDef[f].deps[1]))) =>
                                Result(o) = kResultOk

\* C15 witness: a plugin whose dependency is not linked yet is requested and
\* both get linked in the one call; and a plugin whose dependency the host
\* holds already is requested and the count of the dependency becomes two
C15_Witness ==
    /\ Up /\ Running(World)
    /\ \E f \in disk :
          /\ WillReenter(World, f)
          /\ \/ ~Linked(World, PluginDef[f].deps[1])
             \/ CountOf(World, PluginDef[f].deps[1], "T1") = 1
          /\ With(LoadInterface(World, Nominal, PluginDef[f].id, "T1", "", FALSE), LAMBDA o :
                /\ Result(o) = kResultOk
                /\ Reentered(World, o, f, "T1")
                /\ Linked(o.w, PluginDef[f].deps[1])
                /\ CountOf(o.w, PluginDef[f].deps[1], "T1") = CountOf(World, PluginDef[f].deps[1], "T1") + 1)

(***************************************************************************)
(* Interfaces that are not counted                                         *)
(***************************************************************************)
\* the entries of identity p that a request can reach (the first of their
\* type) and that are not counted
NotCountedAt(w, p) ==
    {i \in 1..Len(w.ctx.interfaces[p]) :
        /\ ~Counted(w.ctx.interfaces[p][i])
        /\ \A j \in 1..(i - 1) : w.ctx.interfaces[p][j].type # w.ctx.interfaces[p][i].type}

\* the call with outcome o returned Ok and changed neither the registry, the
\* module table, the mapped modules nor a plugin, and called no deregister
Untouched(w, o) ==
    /\ Result(o) = kResultOk
    /\ o.w.ctx = w.ctx /\ o.w.os = w.os /\ o.w.pl = w.pl
    /\ \A i \in 1..Len(o.w.tr) : o.w.tr[i].e \notin {"deregister", "free", "unlink", "freeFailed", "stillLoaded"}

\* C16: an interface that is not counted is never the basis for
\* deregistration.  For the core identity and for every linked plugin,
\* acquiring and releasing a not-counted interface any number of times
\* returns Ok, changes no count, and never deregisters or unloads the owner;
\* an identity's list that holds only that entry is not released either.
C16_NotCountedNeverDeregisters ==
    (Up /\ Running(World)) =>
        \A p \in PluginIDs :
            (p = kCoreId \/ Linked(World, p)) =>
                \A i \in NotCountedAt(World, p), path \in {"", "sdk"} :
                    \A e \in {ctx.interfaces[p][i]} :
                      \A a \in {LoadInterface(World, Nominal, p, e.type, path, FALSE)} :
                        \A r \in {UnloadInterface(a.w, Nominal, p, e.type, FALSE)} :
                          /\ Untouched(World, a)
                          /\ Untouched(World, r)
                          /\ Untouched(World, UnloadInterface(r.w, Nominal, p, e.type, FALSE))
                          /\ Untouched(World, LoadInterface(a.w, Nominal, p, e.type, path, FALSE))
                          /\ ~(/\ deletedInterface(Nominal, <<e>>, e.type)
                               /\ ~remainingInterfaces(Nominal, <<e>>, e.type))

\* C16 witness: a plugin is linked whose counted interface nobody holds, and
\* its not-counted interface is acquired and released twice
C16_Witness ==
    /\ Up /\ Running(World)
    /\ \E p \in PluginIDs \ {kCoreId} :
          /\ Linked(World, p)
          /\ \A i \in 1..Len(ctx.interfaces[p]) : ctx.interfaces[p][i].refCount = 0
          /\ \E i \in NotCountedAt(World, p) :
                With(LoadInterface(World, Nominal, p, ctx.interfaces[p][i].type, "", FALSE), LAMBDA a :
                  With(UnloadInterface(a.w, Nominal, p, ctx.interfaces[p][i].type, FALSE), LAMBDA r :
                    /\ Untouched(World, r)
                    /\ Untouched(World, UnloadInterface(r.w, Nominal, p, ctx.interfaces[p][i].type, FALSE))
                    /\ Linked(r.w, p)))

(***************************************************************************)
(* Duplicate registration of an interface                                  *)
(***************************************************************************)
InterfaceFlagChoices == {InterfaceFlagNone, InterfaceFlagNotRefCounted}

\* every interface structure registered for identity p still exists
ValidList(w, p) == \A i \in 1..Len(w.ctx.interfaces[p]) : w.ctx.interfaces[p][i].valid

\* the number of entries of type t in the list of identity p
EntriesOf(w, p, t) ==
    Cardinality({i \in 1..Len(w.ctx.interfaces[p]) : w.ctx.interfaces[p][i].type = t})

\* C17: adding an interface twice for the same {identity, type} is rejected
\* on the second call and leaves the registry unchanged.  After an add that
\* returned true (and an acquisition of the new entry), an add of the same
\* type with any flags returns false and changes nothing: the first entry,
\* its flags and its count stay; an add of a type the list holds already
\* returns false and changes nothing.
C17_DuplicateAddRejected ==
    (Up /\ Running(World)) =>
        \A p \in Named, t \in PluginTypes :
            ValidList(World, p) =>
                \A fl \in InterfaceFlagChoices, fl2 \in InterfaceFlagChoices :
                    \A a \in {addInterface(World, Nominal, p, t, fl)} :
                        /\ EntriesOf(a.w, p, t) = 1
                        /\ a.r = (EntriesOf(World, p, t) = 0)
                        /\ ~a.r => a.w = World
                        /\ \A g \in {Acquire(a.w, Nominal, "host", p, t)} :
                              \A b \in {addInterface(g.w, Nominal, p, t, fl2)} :
                                  ~b.r /\ b.w = g.w

\* C17 witness: a plugin whose register adds the same type twice, with other
\* flags the second time, is linked: its list holds the type once, with the
\* flags of the first add, and a further add of the type is rejected
C17_Witness ==
    /\ Up /\ Running(World)
    /\ \E f \in disk :
          /\ Linked(World, PluginDef[f].id) /\ ModuleFile(World, PluginDef[f].id) = f
          /\ \E i \in 1..Len(PluginDef[f].adds) : \E j \in 1..(i - 1) :
                /\ PluginDef[f].adds[i].type = PluginDef[f].adds[j].type
                /\ PluginDef[f].adds[i].flags # PluginDef[f].adds[j].flags
                /\ EntriesOf(World, PluginDef[f].id, PluginDef[f].adds[j].type) = 1
                /\ EntryOf(ctx.interfaces[PluginDef[f].id], PluginDef[f].adds[j].type).flags
                       = PluginDef[f].adds[j].flags
                /\ CountOf(World, PluginDef[f].id, PluginDef[f].adds[j].type) > 0
                /\ With(addInterface(World, Nominal, PluginDef[f].id, PluginDef[f].adds[j].type,
                                     PluginDef[f].adds[i].flags),
                        LAMBDA b : ~b.r /\ b.w = World)

(***************************************************************************)
(* A register that adds no interface                                       *)
(***************************************************************************)
\* the plugin of module file f is recorded, not linked and has no interface:
\* a request for it runs registerPlugin
WillRegister(w, f) ==
    /\ f \in w.disk /\ ModuleFile(w, PluginDef[f].id) = f
    /\ ~Linked(w, PluginDef[f].id)
    /\ w.ctx.interfaces[PluginDef[f].id] = <<>>

\* the register of module file f returns Ok without an addInterface call
AddsNothing(f, rd) == [pf |-> <<f, "noAdd">>, uf |-> {}, rd |-> rd]

\* the request with outcome o failed, the module of f was unloaded again
\* and the plugin is not linked and has no interface
FailedRegistration(w, o, f) ==
    /\ Result(o) = kResultInvalidState
    /\ ~Linked(o.w, PluginDef[f].id)
    /\ o.w.ctx.interfaces[PluginDef[f].id] = <<>>
    /\ Unloads(o.w.tr, PluginDef[f].id) # {}
    /\ EventsOf(o.w.tr, "link", PluginDef[f].id) = {}
    /\ o.w.os[f] = w.os[f]
    /\ NominalRun(w) => o.w.os[f] = 0

\* C18: a plugin whose register returns without having added at least one
\* new interface is a failed registration: the getInterface that ran the
\* register fails, the module is unloaded, and the plugin stays unlinked.
C18_RegisterMustAddInterface ==
    (Up /\ Running(World)) =>
        \A f \in disk, t \in PluginTypes, rd \in Reads(ctx) :
            WillRegister(World, f) =>
                \A o \in {LoadInterface(World, AddsNothing(f, rd), PluginDef[f].id, t, "", FALSE)} :
                    EventsOf(o.w.tr, "register", PluginDef[f].id) # {} =>
                        FailedRegistration(World, o, f)

\* C18 witness: no module misbehaved so far, and the register of a
\* requested plugin returns Ok without an interface added
C18_Witness ==
    /\ Up /\ Running(World) /\ NominalRun(World)
    /\ \E f \in disk :
          /\ WillRegister(World, f)
          /\ With(LoadInterface(World, AddsNothing(f, "stale"), PluginDef[f].id, "T1", "", FALSE),
                  LAMBDA o : /\ EventsOf(o.w.tr, "register", PluginDef[f].id) # {}
                             /\ EventsOf(o.w.tr, "fault", PluginDef[f].id) # {}
                             /\ FailedRegistration(World, o, f)
                             /\ EventsOf(o.w.tr, "free", PluginDef[f].id) # {})

(***************************************************************************)
(* Requests for a plugin that is linked already                            *)
(***************************************************************************)
\* the steps of linking a module
LinkSteps == {"load", "getInfo", "minspec", "register"}

\* how often step e ran for identity p in the call with trace tr
Ran(tr, e, p) == Cardinality(EventsOf(tr, e, p))

\* the call with outcome o ran no step of linking, for no plugin, and no
\* module had the occasion to misbehave
NothingLoaded(o) == \A i \in 1..Len(o.w.tr) : o.w.tr[i].e \notin LinkSteps \cup {"fault", "late"}

\* every plugin the call with outcome o linked went through each step of
\* linking once; a late discovery in the same call loads the candidates of
\* its directory and calls their getInfo a further time
LinkedOnce(w, o) ==
    \A q \in PluginIDs :
        (Linked(o.w, q) /\ ~Linked(w, q)) =>
            /\ Ran(o.w.tr, "minspec", q) = 1 /\ Ran(o.w.tr, "register", q) = 1
            /\ ~Happened(o.w.tr, "late") =>
                  Ran(o.w.tr, "load", q) = 1 /\ Ran(o.w.tr, "getInfo", q) = 1

\* C19: re-requesting an interface of a plugin that is already loaded does
\* not reload or re-validate it.  The request that links a plugin loads its
\* module, calls getInfo, checks the min spec and calls register once each;
\* while the plugin is linked no request for it, whatever the type, the
\* path or the state of the module files, runs any of these steps again.
C19_NoReloadWhileLinked ==
    (Up /\ Running(World)) =>
        /\ \A p \in PluginIDs :
              Linked(World, p) =>
                  \A t \in PluginTypes, path \in {"", "hwi", "invalid"} :
                      \A env \in EnvSet(Rel(p), FaultKinds, {}, Reads(ctx)) :
                          \A o \in {LoadInterface(World, env, p, t, path, FALSE)} :
                              NothingLoaded(o) /\ Linked(o.w, p)
        /\ \A f \in disk, t \in PluginTypes :
              WillRegister(World, f) =>
                  \A o \in {LoadInterface(World, Nominal, PluginDef[f].id, t, "", FALSE)} :
                      /\ LinkedOnce(World, o)
                      /\ Linked(o.w, PluginDef[f].id) =>
                            \A t2 \in PluginTypes :
                                NothingLoaded(LoadInterface([o.w EXCEPT !.tr = <<>>], Nominal,
                                                            PluginDef[f].id, t2, "", FALSE))

\* C19 witness: a request links a plugin and its dependency, each step run
\* once for either, and the same request made again runs none
C19_Witness ==
    /\ Up /\ Running(World)
    /\ \E f \in disk :
          /\ WillRegister(World, f) /\ PluginDef[f].deps # <<>>
          /\ ~Linked(World, PluginDef[f].deps[1])
          /\ With(LoadInterface(World, Nominal, PluginDef[f].id, "T1", "", FALSE), LAMBDA o :
                /\ Result(o) = kResultOk
                /\ Linked(o.w, PluginDef[f].id) /\ Linked(o.w, PluginDef[f].deps[1])
                /\ LinkedOnce(World, o) /\ ~Happened(o.w.tr, "late")
                /\ With(LoadInterface([o.w EXCEPT !.tr = <<>>], Nominal, PluginDef[f].id, "T1", "", FALSE),
                        LAMBDA o2 : Result(o2) = kResultOk /\ NothingLoaded(o2)))

(***************************************************************************)
(* Initialization without a plugin                                         *)
(***************************************************************************)
\* the entries of the report whose candidate was accepted
Accepted(w) == {i \in 1..Len(w.ctx.pluginSpecs) : w.ctx.pluginSpecs[i].status = kResultOk}

\* C20: init fails with NoPluginsFound if zero modules were accepted across
\* all directories, that is when no candidate was found or every candidate
\* was rejected: an init with valid Preferences that no exception ends and
\* whose report holds no accepted entry returns NoPluginsFound.
C20_NoPluginsFound ==
    (Up /\ Uninitialized(World)) =>
        \A pref \in Prefs, caps \in CapsChoices, env \in InitEnvs :
            \A o \in {InitImpl(World, env, pref, caps)} :
                (pref.magic /\ ~o.x /\ Accepted(o.w) = {}) =>
                    Result(o) = kResultNoPluginsFound

(***************************************************************************)
(* Concurrent acquisition and release                                      *)
(***************************************************************************)
\* no thread is inside a call
Quiescent == \A t \in Threads : th.pc[t] = "idle"

\* the references thread t holds and is not about to give back
HeldBy(t) == IF th.pc[t] \in {"unloadWrite", "unloadTest", "unloadDeregister", "unloadErase"}
             THEN th.held[t] - 1 ELSE th.held[t]

\* C13: reference-count increments and decrements are atomic with respect
\* to concurrent getInterface and releaseInterface calls on the same
\* interface.  When the threads have completed m acquisitions and n <= m
\* releases of the linked counted interface, the plugin never unlinked, the
\* count is the initial count + m - n.
C13_AtomicCounts ==
    (/\ process = "up" /\ Quiescent
     /\ th.unlinks = 0 /\ th.released <= th.acquired /\ Slot(ctx) # 0) =>
        ctx.interfaces[kHwiCommon][Slot(ctx)].refCount = th.initial + th.acquired - th.released

\* C14: acquisition and release are safe against concurrent calls.  Under
\* every interleaving of getInterface and releaseInterface calls on the
\* linked plugin, a getInterface that returned Ok returned a pointer whose
\* owner was linked when the call returned, and the module is neither
\* deregistered nor unloaded while a thread holds a counted reference.
C14_SafeConcurrentUse ==
    process = "up" =>
        /\ \A t \in Threads : th.last[t] = kResultOk => th.live[t]
        /\ (\E t \in Threads : HeldBy(t) > 0) =>
              /\ ctx.modules[kHwiCommon].hmod
              /\ os[ctx.modules[kHwiCommon].path] > 0

(***************************************************************************)
(* Rejected candidates                                                     *)
(***************************************************************************)
\* the ways a candidate is rejected for what its module is: its shared
\* libraries do not validate, it does not load, it lacks the entry point,
\* its getInfo fails
RejectionEnvs == EnvSet(disk, {"validate", "load", "getFunc", "getInfo"}, {}, {"stale"})

\* the place of module file f in the listing of its directory
ListedAt(f) == CHOOSE i \in 1..Len(DirListing[FileDir(f)]) : DirListing[FileDir(f)][i] = f

\* a module of the same identity is listed before f and answers getInfo
EarlierCopy(w, env, f) ==
    \E g \in w.disk :
        /\ PluginDef[g].id = PluginDef[f].id /\ FileDir(g) = FileDir(f)
        /\ ListedAt(g) < ListedAt(f)
        /\ env.pf[1] # g /\ isInterfaceSameOrNewerVersion(PluginDef[g])

\* the status a scan of all plugins owes candidate f
StatusOwed(w, env, f, caps) ==
    IF env.pf[1] = f
    THEN (IF env.pf[2] \in {"validate", "load"} THEN kResultMissingDynamicLibraryDependency
          ELSE kResultInvalidState)
    ELSE IF ~isInterfaceSameOrNewerVersion(PluginDef[f]) THEN kResultPluginOutOfDate
    ELSE IF EarlierCopy(w, env, f) THEN kResultDuplicatedPluginId
    ELSE checkPluginMinSpec(PluginDef[f], caps)

\* the entries of the report about module file f
EntriesAbout(w, f) == {i \in 1..Len(w.ctx.pluginSpecs) : w.ctx.pluginSpecs[i].pluginName = f}

\* the report of the initialize with outcome o has an entry per candidate
\* with the status owed (the scan's; the register of an eager-listed plugin
\* that looks for its dependency adds entries of its own); no rejected
\* candidate is linked
RejectionsReported(w, o, env, pref, caps) ==
    \A f \in Candidates(pref) :
        /\ EntriesAbout(o.w, f) # {}
        /\ ~Happened(o.w.tr, "late") => Cardinality(EntriesAbout(o.w, f)) = 1
        /\ \A i \in EntriesAbout(o.w, f) :
              (\A j \in EntriesAbout(o.w, f) : i <= j) =>
                  o.w.ctx.pluginSpecs[i].status = StatusOwed(w, env, f, caps)
        /\ StatusOwed(w, env, f, caps) # kResultOk =>
              ~\E p \in PluginIDs : Linked(o.w, p) /\ ModuleFile(o.w, p) = f

\* an eager-listed plugin that discovery recorded did not link
EagerLinkFailed(o, pref) ==
    \E i \in 1..Len(pref.registerPlugins) :
        /\ Enumerated(o.w, pref.registerPlugins[i])
        /\ ~Linked(o.w, PluginDef[pref.registerPlugins[i]].id)

\* C21 as stated: per-plugin rejection never fails init.  The rejection is
\* recorded as the status of the candidate's report entry, the candidate is
\* not linked, and init returns Ok as long as one plugin was accepted.
C21_RejectionNeverFailsInit ==
    (Up /\ Uninitialized(World)) =>
        \A pref \in Prefs, caps \in CapsChoices, env \in RejectionEnvs :
            \A o \in {InitImpl(World, env, pref, caps)} :
                (pref.magic /\ Accepted(o.w) # {}) =>
                    /\ RejectionsReported(World, o, env, pref, caps)
                    /\ Result(o) = kResultOk

\* C21 amended: the rejection is recorded as the status of the candidate's
\* report entry, the candidate is not linked, and init returns Ok as long as
\* one plugin was accepted, unless a plugin listed for eager linking fails
\* to link: then init returns the failure.
C21_RejectionFailsOnlyEagerInit ==
    (Up /\ Uninitialized(World)) =>
        \A pref \in Prefs, caps \in CapsChoices, env \in RejectionEnvs :
            \A o \in {InitImpl(World, env, pref, caps)} :
                (pref.magic /\ Accepted(o.w) # {}) =>
                    /\ RejectionsReported(World, o, env, pref, caps)
                    /\ IF EagerLinkFailed(o, pref) THEN Result(o) # kResultOk
                       ELSE Result(o) = kResultOk

\* C21 witness: an installation with an accepted plugin, a second copy of
\* it and a plugin the machine cannot run is scanned, the first candidate
\* accepted not loading: the copy is accepted, the others are reported as
\* rejected, and init returns Ok
C21_Witness ==
    /\ Up /\ Uninitialized(World)
    /\ \E pref \in Prefs, caps \in CapsChoices, env \in RejectionEnvs :
          /\ pref.magic /\ pref.registerPlugins = <<>> /\ env.pf[2] = "load"
          /\ With(InitImpl(World, env, pref, caps), LAMBDA o :
                /\ Result(o) = kResultOk
                /\ Cardinality(Accepted(o.w)) = 1
                /\ Len(o.w.ctx.pluginSpecs) = 3
                /\ RejectionsReported(World, o, env, pref, caps)
                /\ \E i \in 1..3 : o.w.ctx.pluginSpecs[i].status = kResultDriverOutOfDate
                /\ \E i \in 1..3 :
                      o.w.ctx.pluginSpecs[i].status = kResultMissingDynamicLibraryDependency)

(***************************************************************************)
(* Duplicate identities                                                    *)
(***************************************************************************)
\* the module files among files that report identity p and get as far as
\* the duplicate test of a scan
Copies(w, env, files, p) ==
    {f \in files \cap w.disk :
        /\ PluginDef[f].id = p /\ env.pf[1] # f
        /\ isInterfaceSameOrNewerVersion(PluginDef[f])}

\* the scan with outcome o wrote an entry about module file f that says
\* DuplicatedPluginId
ReportedDuplicate(w, o, f) ==
    \E i \in EntriesAbout(o.w, f) :
        /\ i > Len(w.ctx.pluginSpecs)
        /\ o.w.ctx.pluginSpecs[i].status = kResultDuplicatedPluginId

\* identity p after the scan of files with outcome o: a record that existed
\* is kept and every copy scanned is a duplicate; else the record points at
\* the copy listed first and every other copy is a duplicate
FirstFoundKept(w, o, env, files, p) ==
    IF w.ctx.modules[p].present
    THEN /\ o.w.ctx.modules[p].present
         /\ o.w.ctx.modules[p].path = w.ctx.modules[p].path
         /\ \A f \in Copies(w, env, files, p) : ReportedDuplicate(w, o, f)
    ELSE IF Copies(w, env, files, p) = {} THEN ~o.w.ctx.modules[p].present \/ o.w.ctx.modules[p].path = ""
    ELSE \E f \in Copies(w, env, files, p) :
            /\ \A g \in Copies(w, env, files, p) : ListedAt(f) <= ListedAt(g)
            /\ o.w.ctx.modules[p].present /\ o.w.ctx.modules[p].path = f
            /\ ~ReportedDuplicate(w, o, f)
            /\ \A g \in Copies(w, env, files, p) \ {f} : ReportedDuplicate(w, o, g)

\* the module files of directory d
FilesIn(d) == {f \in Files : FileDir(f) = d}

\* C22: when two candidate modules report the same identity the second is
\* rejected with status DuplicatedPluginId, and after a discovery, at init
\* or for an identity requested with a path, the module table holds one
\* record per known identity, pointing at the first module found for it:
\* records that existed are kept as they were.
C22_OneRecordPerIdentity ==
    Up =>
        /\ Uninitialized(World) =>
              \A pref \in Prefs, caps \in CapsChoices, env \in RejectionEnvs :
                  \A o \in {InitImpl(World, env, pref, caps)} :
                      pref.magic =>
                          \A p \in DiskIds : FirstFoundKept(World, o, env, Candidates(pref), p)
        /\ Running(World) =>
              \A p \in Named \ {kCoreId}, path \in Dirs, env \in RejectionEnvs :
                  (ctx.interfaces[p] = <<>> /\ ~ctx.modules[p].present /\ internalPluginSetup(World)) =>
                      \A o \in {LateDiscovery(World, env, p, path)} :
                          /\ FirstFoundKept(World, o, env, FilesIn(path), p)
                          /\ \A q \in PluginIDs \ {p} : o.w.ctx.modules[q] = ctx.modules[q]

\* C22 witness: an identity with two module files is unknown and requested
\* with the path of their directory: the record points at the file listed
\* first and the report calls the second a duplicate
C22_Witness ==
    /\ Up /\ Running(World)
    /\ \E p \in Named \ {kCoreId} :
          /\ ctx.interfaces[p] = <<>> /\ ~ctx.modules[p].present
          /\ \E path \in Dirs :
                /\ Cardinality(Copies(World, Nominal, FilesIn(path), p)) = 2
                /\ With(LateDiscovery(World, Nominal, p, path), LAMBDA o :
                      /\ FirstFoundKept(World, o, Nominal, FilesIn(path), p)
                      /\ o.w.ctx.modules[p].present
                      /\ \E g \in Copies(World, Nominal, FilesIn(path), p) :
                            ReportedDuplicate(World, o, g))

(***************************************************************************)
(* Order of the minimum-spec tests                                         *)
(***************************************************************************)
\* a verdict was returned
Checked == ms.verdict # "none"

\* the tests of the checker, each as a condition on what it was given
DriverShort == VersionGT(ms.info.minDriver, ms.caps.driverVersion)
OSShort == ms.windows /\ VersionGT(ms.info.minOS, ms.caps.osVersion)
APIShort == VersionGT(ms.info.pluginAPI, apiVersion)
Adapters == {ms.caps.adapters[i] : i \in 1..Len(ms.caps.adapters)}
HardwareMissing ==
    CASE ms.info.requiredVendor = "None" -> FALSE
      [] ms.info.requiredVendor = "Any" -> Adapters = {}
      [] OTHER -> \A a \in Adapters :
                     a.vendor # ms.info.requiredVendor \/ a.architecture < ms.info.minGPUArch

\* C23: the minimum-spec check tests driver, OS (where the build has an OS
\* test), required API and hardware in that order and returns the result
\* of the first test that fails: DriverOutOfDate, OSOutOfDate, InvalidState,
\* NoSupportedHardwareFound; it returns Ok only when all of them pass.
C23_FirstFailingTest ==
    Checked =>
        /\ (ms.verdict = kResultDriverOutOfDate) = DriverShort
        /\ (ms.verdict = kResultOSOutOfDate) = (~DriverShort /\ OSShort)
        /\ (ms.verdict = kResultInvalidState) = (~DriverShort /\ ~OSShort /\ APIShort)
        /\ (ms.verdict = kResultNoSupportedHardwareFound) =
              (~DriverShort /\ ~OSShort /\ ~APIShort /\ HardwareMissing)
        /\ (ms.verdict = kResultOk) = (~DriverShort /\ ~OSShort /\ ~APIShort /\ ~HardwareMissing)

\* C23 witness: the OS, the API and the hardware test would all fail and the
\* verdict is that of the OS test
C23_Witness ==
    /\ Checked /\ ~DriverShort /\ OSShort /\ APIShort /\ HardwareMissing
    /\ ms.verdict = kResultOSOutOfDate

(***************************************************************************)
(* The hardware requirement                                                *)
(***************************************************************************)
\* the hardware test was reached
HardwareTested == Checked /\ ~DriverShort /\ ~OSShort /\ ~APIShort

\* C24: a plugin that requires no vendor passes the hardware test with zero
\* adapters; one that accepts any vendor passes iff at least one adapter
\* exists and fails with NoSupportedHardwareFound with zero; one that
\* requires a vendor passes iff some adapter has that vendor and an
\* architecture of at least minGPUArch.
C24_HardwareRequirement ==
    HardwareTested =>
        /\ ms.verdict \in {kResultOk, kResultNoSupportedHardwareFound}
        /\ ms.info.requiredVendor = "None" => ms.verdict = kResultOk
        /\ ms.info.requiredVendor = "Any" =>
              (ms.verdict = kResultOk) = (Len(ms.caps.adapters) >= 1)
        /\ ms.info.requiredVendor \notin {"None", "Any"} =>
              (ms.verdict = kResultOk) =
                  \E i \in 1..Len(ms.caps.adapters) :
                      /\ ms.caps.adapters[i].vendor = ms.info.requiredVendor
                      /\ ms.caps.adapters[i].architecture >= ms.info.minGPUArch

\* C24 witness: the vendor required is there, with too low an architecture,
\* next to an adapter of another vendor, and the verdict is
\* NoSupportedHardwareFound
C24_Witness ==
    /\ HardwareTested
    /\ ms.info.requiredVendor = "NVDA" /\ ms.info.minGPUArch = 500
    /\ Len(ms.caps.adapters) = 2
    /\ ms.caps.adapters[1] = [vendor |-> "NVDA", architecture |-> 400]
    /\ ms.caps.adapters[2].vendor = "AMD"
    /\ ms.verdict = kResultNoSupportedHardwareFound

(***************************************************************************)
(* Requests for a plugin the machine cannot run                            *)
(***************************************************************************)
\* the statuses the discovery report gives for identity p
ReportedStatus(w, p) ==
    {w.ctx.pluginSpecs[i].status : i \in {j \in 1..Len(w.ctx.pluginSpecs) : w.ctx.pluginSpecs[j].id = p}}

\* the request for plugin p, of module file f, with outcome o got no
\* interface: no reference was taken, the plugin has no interface and is
\* not linked, and its module is mapped no more than before
NothingObtained(w, o, f) ==
    /\ o.w.gh.hostRefs = w.gh.hostRefs
    /\ o.w.ctx.interfaces[PluginDef[f].id] = <<>>
    /\ ~Linked(o.w, PluginDef[f].id)
    /\ EventsOf(o.w.tr, "register", PluginDef[f].id) = {}
    /\ o.w.os[f] = w.os[f]
    /\ NominalRun(w) => o.w.os[f] = 0

\* C25: getInterface for a discovered plugin that fails the minimum-spec
\* check returns the code of that check, the status the discovery report
\* shows for it; no interface is returned, and the plugin is left unlinked
\* and its module not mapped.
C25_MinSpecRejectionOnRequest ==
    (Up /\ Running(World)) =>
        \A f \in disk, t \in PluginTypes, rd \in Reads(ctx) :
            (WillRegister(World, f) /\ checkPluginMinSpec(PluginDef[f], ctx.caps) # kResultOk) =>
                \A o \in {LoadInterface(World, [Nominal EXCEPT !.rd = rd], PluginDef[f].id, t, "", FALSE)} :
                    /\ Result(o) = checkPluginMinSpec(PluginDef[f], ctx.caps)
                    /\ ReportedStatus(o.w, PluginDef[f].id) = {Result(o)}
                    /\ NothingObtained(World, o, f)

\* C25 witness: a plugin that needs a newer driver is requested: the module
\* was loaded, asked for its descriptor and unloaded, and the request
\* returned DriverOutOfDate
C25_Witness ==
    /\ Up /\ Running(World) /\ NominalRun(World)
    /\ \E f \in disk :
          /\ WillRegister(World, f)
          /\ With(LoadInterface(World, Nominal, PluginDef[f].id, "T1", "", FALSE), LAMBDA o :
                /\ Result(o) = kResultDriverOutOfDate
                /\ ReportedStatus(o.w, PluginDef[f].id) = {kResultDriverOutOfDate}
                /\ EventsOf(o.w.tr, "getInfo", PluginDef[f].id) # {}
                /\ Unloads(o.w.tr, PluginDef[f].id) # {}
                /\ NothingObtained(World, o, f))

(***************************************************************************)
(* Discovery on request                                                    *)
(***************************************************************************)
\* identity p is known: the module table has a record with a path for it
Known(w, p) == w.ctx.modules[p].present /\ w.ctx.modules[p].path # ""

\* the identities the call with outcome o discovered
NewlyDiscovered(w, o) == {q \in PluginIDs : Known(o.w, q) /\ ~Known(w, q)}

\* the identities plugin p is linked with: its own and its dependencies'
WithDependencies(w, p) ==
    {p} \cup {PluginDef[ModuleFile(w, p)].deps[i] : i \in 1..Len(PluginDef[ModuleFile(w, p)].deps)}

\* the request for identity p with a path is one that runs a discovery
AsksDiscovery(w, p) == w.ctx.interfaces[p] = <<>> /\ ~w.ctx.modules[p].present

\* Preferences that name the sdk directory alone
SdkOnly ==
    [paths |-> <<"sdk">>, deps |-> "", magic |-> TRUE, dupLibs |-> FALSE, registerPlugins |-> <<>>]

\* in world w every request with a path for an unknown identity that
\* succeeds discovered the plugin, linked it with its dependencies and
\* raised numDetectedPlugins by the number of plugins it discovered, and
\* the same request again succeeds and adds no report entry
DiscoveryOnRequest(w) ==
    \A p \in Named \ {kCoreId}, path \in Dirs, t \in PluginTypes :
        AsksDiscovery(w, p) =>
            \A o \in {LoadInterface(w, Nominal, p, t, path, FALSE)} :
                Result(o) = kResultOk =>
                    /\ p \in NewlyDiscovered(w, o)
                    /\ \A q \in WithDependencies(o.w, p) : Linked(o.w, q)
                    /\ o.w.ctx.numDetectedPlugins =
                          w.ctx.numDetectedPlugins + Cardinality(NewlyDiscovered(w, o))
                    /\ \A o2 \in {LoadInterface(After(o), Nominal, p, t, path, FALSE)} :
                          /\ Result(o2) = kResultOk
                          /\ o2.w.ctx.pluginSpecs = o.w.ctx.pluginSpecs
                          /\ o2.w.ctx.numDetectedPlugins = o.w.ctx.numDetectedPlugins

\* C26: a getInterface with a search path for an identity not yet known
\* that succeeds has discovered the plugin, linked it and its dependencies
\* and raised numDetectedPlugins by exactly the number of plugins newly
\* discovered; the same request again succeeds and adds no report entry.
C26_LateDiscoveryCountsNewPlugins ==
    Up =>
        /\ Running(World) => DiscoveryOnRequest(World)
        /\ Uninitialized(World) =>
              \A caps \in CapsChoices :
                  \A i \in {InitImpl(World, Nominal, SdkOnly, caps)} :
                      Result(i) = kResultOk => DiscoveryOnRequest(After(i))

(***************************************************************************)
(* The discovery report between init and shutdown                          *)
(***************************************************************************)
\* the report is current: numDetectedPlugins is the number of entries of
\* pluginSpecs.  detectedPlugins is pluginSpecs.data(), taken by the
\* statements that set the count, so it refers to the storage as it was
\* when pluginSpecs had numDetectedPlugins entries
ReportCurrent(w) == w.ctx.numDetectedPlugins = Len(w.ctx.pluginSpecs)

\* C27: the discovery report stays valid until shutdown: after an init that
\* succeeded and after every getInterface and releaseInterface that follows,
\* its plugin array is the framework's current plugin-spec storage and
\* numDetectedPlugins is the number of specs recorded, late discovery
\* included.
C27_ReportCurrent ==
    Up =>
        /\ Uninitialized(World) =>
              \A pref \in Prefs, caps \in CapsChoices :
                  \A o \in {InitImpl(World, Nominal, pref, caps)} :
                      Result(o) = kResultOk => ReportCurrent(o.w)
        /\ (Running(World) /\ ReportCurrent(World)) =>
              \A p \in Named, t \in PluginTypes :
                  /\ \A path \in Dirs \cup {""} :
                        \A o \in {LoadInterface(World, Nominal, p, t, path, FALSE)} :
                            o.w.ctx.alive => ReportCurrent(o.w)
                  /\ \A o \in {UnloadInterface(World, Nominal, p, t, FALSE)} :
                        o.w.ctx.alive => ReportCurrent(o.w)

(***************************************************************************)
(* The core interfaces                                                     *)
(***************************************************************************)
\* the registrations under the core identity: logger, allocator, exception
\* handler and system information, each not counted
CoreEntries == [i \in 1..Len(CoreInterfaces) |-> Entry(CoreInterfaces[i], InterfaceFlagNotRefCounted)]

\* every entry point of a plugin that ran in the call with outcome o found
\* the core interfaces: none ended the call with an access violation
EntryPointsServed(o) == ~o.x

\* the framework is up and has a module record: as after every init that
\* succeeded
Discovered(w) == Running(w) /\ \E p \in PluginIDs : Known(w, p)

\* C28: the core singleton interfaces (logger, allocator, system
\* information, exception handler) are registered under the core identity
\* as not counted; they are there before the first getInfo or register of
\* a plugin runs, and from init to shutdown every getInterface for one of
\* them returns Ok with the same registration, which no request or release
\* changes.
C28_CoreInterfaces ==
    Up =>
        /\ Uninitialized(World) =>
              \A pref \in Prefs, caps \in CapsChoices :
                  \A o \in {InitImpl(World, Nominal, pref, caps)} :
                      /\ pref.magic => EntryPointsServed(o)
                      /\ Result(o) = kResultOk =>
                            Discovered(o.w) /\ o.w.ctx.interfaces[kCoreId] = CoreEntries
        /\ Discovered(World) =>
              /\ ctx.interfaces[kCoreId] = CoreEntries
              /\ \A t \in CoreTypes, rd \in Reads(ctx) :
                    /\ \A o \in {LoadInterface(World, [Nominal EXCEPT !.rd = rd], kCoreId, t, "", FALSE)} :
                          Result(o) = kResultOk /\ After(o) = World
                    /\ \A o \in {UnloadInterface(World, [Nominal EXCEPT !.rd = rd], kCoreId, t, FALSE)} :
                          o.w.ctx.interfaces[kCoreId] = CoreEntries

\* C28 witness: a plugin is linked, so its getInfo and its register ran and
\* found the core interfaces, and the host gets the system interface
C28_Witness ==
    /\ Up /\ Running(World)
    /\ \E p \in Named \ {kCoreId} : Linked(World, p) /\ ctx.interfaces[p] # <<>>
    /\ With(LoadInterface(World, Nominal, kCoreId, "ISystem", "", FALSE),
            LAMBDA o : Result(o) = kResultOk /\ After(o) = World)

(***************************************************************************)
(* A search directory named twice                                          *)
(***************************************************************************)
\* the path lists that name one directory of paths once more, at a later
\* place
NamedTwice(paths) ==
    {SubSeq(paths, 1, j) \o <<paths[i]>> \o SubSeq(paths, j + 1, Len(paths)) :
        <<i, j>> \in {ij \in (1..Len(paths)) \X (1..Len(paths)) : ij[1] <= ij[2]}}

\* C29: a search directory that occurs twice in the Preferences is scanned
\* once: init returns the same result, with the same module table and the
\* same discovery report, as when the directory is named once, and loads
\* each candidate as often.
C29_DuplicatePathIgnored ==
    (Up /\ Uninitialized(World)) =>
        \A pref \in Prefs, caps \in CapsChoices, env \in RejectionEnvs :
            \A twice \in NamedTwice(pref.paths) :
                \A o \in {InitImpl(World, env, pref, caps)} :
                    InitImpl(World, env, [pref EXCEPT !.paths = twice], caps) = o

\* C29 witness: an init names the first of two directories again after the
\* second, both hold a plugin, and the report has one entry for each
C29_Witness ==
    /\ Up /\ Uninitialized(World)
    /\ \E pref \in Prefs :
          /\ Len(pref.paths) = 2 /\ pref.magic
          /\ \A i \in 1..2 : \E f \in disk : FileDir(f) = pref.paths[i]
          /\ With(InitImpl(World, Nominal, [pref EXCEPT !.paths = @ \o <<pref.paths[1]>>],
                           CHOOSE c \in CapsChoices : TRUE),
                  LAMBDA o : /\ Result(o) = kResultOk
                             /\ Len(o.w.ctx.pluginSpecs) = Cardinality(Candidates(pref))
                             /\ Cardinality(disk) = Cardinality(Candidates(pref))
                             /\ \A f \in disk : Cardinality(EventsOf(o.w.tr, "load", PluginDef[f].id)) >= 1)

AsUninitialized(w, pref, caps) ==
    /\ Uninitialized(w)
    /\ Result(InitImpl(w, Nominal, pref, caps)) # kResultInvalidState
    /\ Result(ShutdownImpl(w, Nominal)) = kResultInvalidState
    /\ \A p \in Named, t \in PluginTypes :
          /\ Result(LoadInterface(w, Nominal, p, t, "", FALSE)) = kResultInvalidState
          /\ Result(UnloadInterface(w, Nominal, p, t, FALSE)) = kResultInvalidState

\* C31: an initialize that returns an error (invalid version token, invalid
\* path, duplicated shared library, NoPluginsFound) leaves the framework
\* Uninitialized: a following initialize with valid arguments is not
\* rejected with InvalidState, and loadInterface, unloadInterface and
\* shutdown fail with InvalidState.
C31_FailedInitLeavesUninitialized ==
    (Up /\ Uninitialized(World)) =>
        \A pref \in Prefs, caps \in CapsChoices :
            \A o \in {InitImpl(World, Nominal, pref, caps)} :
                (~o.x /\ Result(o) # kResultOk) =>
                    \A again \in {q \in Prefs : q.magic /\ q.registerPlugins = <<>>} :
                        AsUninitialized(After(o), again, caps)

(***************************************************************************)
(* Teardown order                                                          *)
(***************************************************************************)
\* identity d was torn down in the call with trace tr before event i: its
\* deregister ran or its module was unloaded
TornBefore(tr, i, d) ==
    \E j \in 1..(i - 1) : tr[j].p = d /\ tr[j].e \in {"deregister", "free"}

\* in the call from world w with outcome o, whenever the deregister of a
\* plugin ran that held the interface of its dependency, the dependency
\* was linked and mapped
DependenciesUp(w, o) ==
    \A i \in 1..Len(o.w.tr) :
        (o.w.tr[i].e = "deregister" /\ ModuleFile(w, o.w.tr[i].p) \in Files) =>
            \A f \in {ModuleFile(w, o.w.tr[i].p)} :
                w.pl[f].holds =>
                    \A k \in 1..Len(PluginDef[f].deps) :
                        /\ Linked(w, PluginDef[f].deps[k])
                        /\ w.os[ModuleFile(w, PluginDef[f].deps[k])] > 0
                        /\ ~TornBefore(o.w.tr, i, PluginDef[f].deps[k])

\* C32: a dependency is never torn down before its dependent: whenever the
\* deregister of a plugin runs, through releaseInterface or through
\* shutdown, every plugin whose interface it acquired during register and
\* still holds is linked and mapped.
C32_DependencyOutlivesDependent ==
    (Up /\ Running(World) /\ NominalRun(World)) =>
        /\ \A o \in {ShutdownImpl(World, Nominal)} : DependenciesUp(World, o)
        /\ \A p \in Named, t \in PluginTypes :
              \A o \in {UnloadInterface(World, Nominal, p, t, FALSE)} : DependenciesUp(World, o)

(***************************************************************************)
(* Linked plugins are referenced                                           *)
(***************************************************************************)
\* every linked plugin has a registered interface that is not counted or
\* whose count is positive
LinkedAreReferenced(w) ==
    \A p \in PluginIDs :
        Linked(w, p) =>
            \E i \in 1..Len(w.ctx.interfaces[p]) :
                \/ ~Counted(w.ctx.interfaces[p][i])
                \/ w.ctx.interfaces[p][i].refCount > 0

\* C33: with no eager list, between public API calls every linked plugin has
\* at least one registered interface that is not counted or has a positive
\* count: it holds after an initialize without eager list and every
\* getInterface and releaseInterface keeps it, in particular a getInterface
\* that linked the plugin and returned MissingInterface because the plugin
\* does not register the requested type.
C33_LinkedAreReferenced ==
    /\ (Up /\ Uninitialized(World)) =>
          \A pref \in {q \in Prefs : q.registerPlugins = <<>>}, caps \in CapsChoices :
              \A o \in {InitImpl(World, Nominal, pref, caps)} :
                  (Result(o) = kResultOk) => LinkedAreReferenced(o.w)
    /\ (Up /\ Running(World) /\ NominalRun(World) /\ LinkedAreReferenced(World)) =>
          \A p \in Named, t \in PluginTypes :
              /\ \A o \in {LoadInterface(World, Nominal, p, t, "", FALSE)} :
                    ~o.x => LinkedAreReferenced(o.w)
              /\ \A o \in {UnloadInterface(World, Nominal, p, t, FALSE)} :
                    (Result(o) = kResultOk) => LinkedAreReferenced(o.w)

(***************************************************************************)
(* Module record and registry                                              *)
(***************************************************************************)
\* the ModuleRecord of p has its handle and its deregister pointer
Populated(w, p) == w.ctx.modules[p].hmod /\ w.ctx.modules[p].pluginDeregister

\* the record of p has neither
Cleared(w, p) == ~w.ctx.modules[p].hmod /\ ~w.ctx.modules[p].pluginDeregister

\* C34: between public API calls, for every known identity the handle and
\* the deregister pointer of its ModuleRecord are non-null exactly when the
\* registry holds at least one interface for that identity, and null
\* otherwise.
C34_RecordMatchesRegistry ==
    (Up /\ Running(World) /\ NominalRun(World)) =>
        \A p \in PluginIDs :
            Known(World, p) =>
                IF World.ctx.interfaces[p] # <<>> THEN Populated(World, p) ELSE Cleared(World, p)

(***************************************************************************)
(* A failing release                                                       *)
(***************************************************************************)
\* the calls a host can make next give the same outcome from w1 and w2
SameFuture(w1, w2) ==
    \A p \in Named, t \in PluginTypes, path \in {"", "sdk", "hwi"} :
        /\ Result(LoadInterface(w1, Nominal, p, t, path, FALSE))
             = Result(LoadInterface(w2, Nominal, p, t, path, FALSE))
        /\ LoadInterface(w1, Nominal, p, t, path, FALSE).w.ctx.interfaces
             = LoadInterface(w2, Nominal, p, t, path, FALSE).w.ctx.interfaces

\* the failed release with outcome o from world w changed neither the
\* module table nor the registry, and the host's next calls behave as from w
FailedReleaseFrame(w, o) ==
    /\ o.w.ctx.modules = w.ctx.modules
    /\ o.w.ctx.interfaces = w.ctx.interfaces
    /\ SameFuture(After(o), w)

\* C35: a releaseInterface that fails, for an unknown identity or for a type
\* the plugin has not registered, leaves the module table, the registry and
\* every count as they were: it creates no ModuleRecord, and a later
\* getInterface with or without discovery behaves as if the failed release
\* had not happened, in any running state and after an initialize that was
\* given the sdk directory alone.
C35_FailedReleaseChangesNothing ==
    /\ (Up /\ Running(World) /\ NominalRun(World)) =>
          \A p \in Named, t \in PluginTypes :
              \A o \in {UnloadInterface(World, Nominal, p, t, FALSE)} :
                  (~o.x /\ Result(o) # kResultOk) => FailedReleaseFrame(World, o)
    /\ (Up /\ Uninitialized(World)) =>
          \A caps \in CapsChoices : \A i \in {InitImpl(World, Nominal, SdkOnly, caps)} :
              (Result(i) = kResultOk) =>
                  \A p \in Named, t \in PluginTypes :
                      \A o \in {UnloadInterface(After(i), Nominal, p, t, FALSE)} :
                          (~o.x /\ Result(o) # kResultOk) => FailedReleaseFrame(After(i), o)

(***************************************************************************)
(* Link, unload, link again                                                *)
(***************************************************************************)
\* the getInterface with outcome o for <<p, t>> linked p anew: the module
\* is mapped, register was called once, the pointer is valid and its count
\* is 1, every other counted interface of p is at zero
Relinked(o, p, t) ==
    /\ Result(o) = kResultOk
    /\ Linked(o.w, p)
    /\ o.w.os[ModuleFile(o.w, p)] = 1
    /\ Ran(o.w.tr, "register", p) = 1
    /\ \A i \in 1..Len(o.w.ctx.interfaces[p]) :
          /\ o.w.ctx.interfaces[p][i].valid
          /\ Counted(o.w.ctx.interfaces[p][i]) =>
                o.w.ctx.interfaces[p][i].refCount
                    = (IF o.w.ctx.interfaces[p][i].type = t THEN 1 ELSE 0)
    /\ \E i \in 1..Len(o.w.ctx.interfaces[p]) : o.w.ctx.interfaces[p][i].type = t

\* the plugin p, linked with <<p, t>> acquired once by the host and nothing
\* else of it referenced, goes through a cycle: the release unlinks it with
\* one deregister, the next getInterface links it anew
Cycle(w, p, t, then(_)) ==
    \A o1 \in {HostRelease(w, "stale", p, t)} :
        /\ Result(o1) = kResultOk
        /\ Unlinked(w, o1, p)
        /\ \A o2 \in {LoadInterface(After(o1), Nominal, p, t, "", FALSE)} :
              /\ Relinked(o2, p, t)
              /\ then(After(o2))

\* C36: after the last release unloaded a plugin, a later getInterface for
\* it links it again (load, register) and returns a valid pointer with
\* count 1; the cycle repeats, each cycle calling register once and
\* deregister once, and no count carries over from one cycle to the next.
C36_RelinkAfterUnload ==
    \A p \in DiskIds, t \in PluginTypes :
        (Up /\ SoleReferenced(World, p, t) /\ Acquired(World, p, t) = 1
            /\ gh.hostRefs[<<p, t>>] = 1) =>
            Cycle(World, p, t, LAMBDA w2 :
                /\ SoleReferenced(w2, p, t) /\ Acquired(w2, p, t) = 1
                /\ Cycle(w2, p, t, LAMBDA w3 : SoleReferenced(w3, p, t)))

\* C36 witness: a plugin whose register acquires the interface of another
\* plugin is linked with one reference and goes through two cycles
C36_Witness ==
    \E p \in DiskIds, t \in PluginTypes :
        /\ Up /\ SoleReferenced(World, p, t) /\ Acquired(World, p, t) = 1
        /\ gh.hostRefs[<<p, t>>] = 1
        /\ PluginDef[ModuleFile(World, p)].deps # <<>>
        /\ Cycle(World, p, t, LAMBDA w2 : Cycle(w2, p, t, LAMBDA w3 : Linked(w3, p)))


(***************************************************************************)
(* Privileges                                                              *)
(***************************************************************************)
\* C37: the privilege downgrade is temporary: when the outermost entry
\* point has returned, the privileges enabled in the process token are
\* those enabled before the call, also when a register or deregister made
\* nested getInterface or releaseInterface calls that downgraded and
\* restored inside the outer scope (no call of the operating system having
\* failed).
C37_PrivilegesRestored ==
    (priv.depth = 0 /\ ~priv.failed) => priv.enabled = priv.entry


(***************************************************************************)
(* PollContext                                                             *)
(***************************************************************************)
\* the worker is inside triggerCallback, has signalled its result pending
\* and no releaseResults was called since
InBetween ==
    /\ poll.pc[Worker] = "waitResultConsumed"
    /\ poll.signalled /\ ~poll.released

\* a getResults(wait = false) that finds nothing pending returns NotReady
\* with its next step
NotReadyAtOnce ==
    \A t \in Pollers :
        (poll.pc[t] = "checkResultPending" /\ ~poll.resultPending
            /\ poll'.pc[t] # poll.pc[t]) =>
            poll'.pc[t] = "idle" /\ poll'.result[t] = kResultNotReady

\* C38: the handshake of a PollContext: triggerCallback(s) does not return
\* before a releaseResults was called after the result was signalled
\* pending; a getResults that returns Ok in between observes s; a
\* getResults(wait = false) never blocks and returns NotReady when nothing
\* is pending; triggerCallback returns a state passed to such a
\* releaseResults.
C38_Handshake ==
    /\ [](poll.pc[Worker] = "load" => poll.signalled /\ poll.released)
    /\ []((InBetween /\ \E t \in Pollers : poll.pc[t] = "state") =>
              poll.resultPendingStatus = poll.arg[Worker])
    /\ [](\A t \in Pollers : poll.pc[t] = "checkResultPending" => t \notin poll.waiters)
    /\ [][NotReadyAtOnce]_vars
    /\ []((poll.pc[Worker] = "idle" /\ poll.result[Worker] # "none") =>
              poll.result[Worker] \in poll.handedBack)

\* C39: no wake-up is lost: a worker blocked in triggerCallback returns
\* once releaseResults was called after it signalled its result pending,
\* and a thread blocked in getResults(wait = true) returns once a
\* triggerCallback signalled a result pending.
C39_NoLostWakeup ==
    /\ (poll.pc[Worker] = "waitResultConsumed" /\ poll.signalled /\ poll.released)
           ~> (poll.pc[Worker] = "idle")
    /\ \A t \in Pollers :
           (poll.pc[t] = "waitResultPending" /\ poll.resultPending) ~> (poll.pc[t] = "idle")


(***************************************************************************)
(* Shared CUDA contexts                                                    *)
(***************************************************************************)
\* the contexts in the cache are the contexts alive, one per queue, and the
\* count of each is the number of its acquisitions not yet released, which
\* is positive: a context is destroyed and leaves the cache exactly when
\* its releases equal its acquisitions
RefCountsMatch ==
    /\ cuda.live = {cuda.contextMap[q].ctx : q \in {k \in Queues : contains(cuda, k)}}
    /\ \A q \in Queues :
          contains(cuda, q) =>
              /\ cuda.contextMap[q].ctx \in CtxHandles
              /\ cuda.contextMap[q].refcount >= 1
              /\ cuda.contextMap[q].refcount = cuda.acquired[cuda.contextMap[q].ctx]
    /\ \A q1, q2 \in Queues :
          (contains(cuda, q1) /\ contains(cuda, q2) /\ q1 # q2) =>
              cuda.contextMap[q1].ctx # cuda.contextMap[q2].ctx
    /\ \A h \in CtxHandles \ cuda.live : cuda.acquired[h] = 0

\* a release of a context of the cache returns Ok, takes one from its
\* count and destroys it with the last acquisition; a release of anything
\* else returns InvalidParameter and changes nothing
ReleaseCounts ==
    \A cuCtx \in {0} \cup CtxHandles :
        \A o \in {cudaReleaseSharedContext(cuda, cuCtx)} :
            IF cuCtx \in cuda.live
            THEN /\ o.r = kResultOk
                 /\ \A q \in Queues :
                       IF q # QueueOf(cuda, cuCtx)
                       THEN o.c.contextMap[q] = cuda.contextMap[q]
                       ELSE IF cuda.acquired[cuCtx] = 1
                       THEN ~contains(o.c, q) /\ o.c.live = cuda.live \ {cuCtx}
                       ELSE /\ o.c.live = cuda.live
                            /\ o.c.contextMap[q] =
                                   [cuda.contextMap[q] EXCEPT !.refcount = @ - 1]
            ELSE o.r = kResultInvalidParameter /\ o.c = cuda

\* the valid calls of cudaGetSharedContextForQueue
ValidCudaParams == {params \in CudaParams : params.device /\ params.queue # NullQueue}

\* the call with outcome o created a context and cached it for queue q
\* with count 1
CreatedFor(o, q) ==
    /\ o.cuCtx \in CtxHandles \ cuda.live
    /\ o.c.live = cuda.live \cup {o.cuCtx}
    /\ o.c.contextMap[q] = [present |-> TRUE, ctx |-> o.cuCtx, refcount |-> 1]

\* the call with outcome o handed out the context cached for queue q and
\* added one to its count
SharedFrom(o, q) ==
    /\ o.cuCtx = cuda.contextMap[q].ctx
    /\ o.c.live = cuda.live
    /\ o.c.contextMap[q] = [cuda.contextMap[q] EXCEPT !.refcount = @ + 1]

\* an acquisition counts on the queue it used, the direct queue or, when
\* no context could be created with it, the compute queue: the first one
\* that uses a queue creates its context, the later ones share it
PerQueueUsed ==
    \A params \in ValidCudaParams, drv \in DriverChoices(cuda) :
        \A o \in {cudaGetSharedContextForQueue(cuda, params, FALSE, drv)} :
            \A q \in {creaateSharedContext(cuda, params, drv).actualQueueUsed} :
                IF o.r # kResultOk THEN o.c = cuda /\ o.cuCtx = 0
                ELSE /\ IF contains(cuda, q) THEN SharedFrom(o, q) ELSE CreatedFor(o, q)
                     /\ q = params.queue \/ (~contains(cuda, params.queue) /\ ~drv.direct)
                     /\ \A k \in Queues \ {q} : o.c.contextMap[k] = cuda.contextMap[k]

\* an acquisition counts on the queue it names: the first one for a queue
\* creates a context, the later ones for that queue get the same context
PerQueueNamed ==
    \A params \in ValidCudaParams, drv \in DriverChoices(cuda) :
        \A o \in {cudaGetSharedContextForQueue(cuda, params, FALSE, drv)} :
            (o.r = kResultOk) =>
                IF cuda.asked[params.queue] # 0
                THEN o.cuCtx = cuda.asked[params.queue]
                ELSE o.cuCtx \in CtxHandles \ cuda.live

\* C40 as stated: shared CUDA contexts are reference-counted per command
\* queue named in the call: the first cudaGetSharedContextForQueue for a
\* queue creates a context, later acquisitions for that queue return the
\* same context, cudaReleaseSharedContext returns Ok for an acquired
\* context, which is destroyed exactly when its releases equal its
\* acquisitions, and the release of a context that is not in the cache
\* returns InvalidParameter and changes nothing.
C40_SharedContextPerQueue ==
    RefCountsMatch /\ ReleaseCounts /\ PerQueueNamed

\* C40 amended: shared CUDA contexts are reference-counted per command
\* queue used, which is the direct queue of the call or, when no context
\* could be created with the direct queue, its compute queue: the first
\* acquisition that uses a queue creates a context, later acquisitions
\* that use that queue return the same context, cudaReleaseSharedContext
\* returns Ok for an acquired context, which is destroyed and removed from
\* the cache exactly when its releases equal its acquisitions, and the
\* release of a context that is not in the cache returns InvalidParameter
\* and changes nothing.
C40_SharedContextPerQueueUsed ==
    RefCountsMatch /\ ReleaseCounts /\ PerQueueUsed

\* C40 witness: the host holds two acquisitions of the context of the
\* compute queue, one of them made for the direct queue, with which no
\* context could be created; the next release leaves the context in the
\* cache and the one after destroys it
C40_Witness ==
    /\ contains(cuda, "compute") /\ ~contains(cuda, "direct")
    /\ cuda.contextMap["compute"].refcount = 2
    /\ cuda.asked["direct"] = cuda.contextMap["compute"].ctx
    /\ \A o \in {cudaReleaseSharedContext(cuda, cuda.contextMap["compute"].ctx)} :
          /\ o.r = kResultOk /\ contains(o.c, "compute")
          /\ \A o2 \in {cudaReleaseSharedContext(o.c, cuda.contextMap["compute"].ctx)} :
                o2.r = kResultOk /\ ~contains(o2.c, "compute") /\ o2.c.live = {}

====
